---- MODULE Spec2Model ----
(***************************************************************************)
(* The job_hunter host and worker: the loopback JSON-line RPC server       *)
(* (src-tauri/src/mcp.rs), the stores it works on (settings.rs, db.rs),    *)
(* the UI commands that share those stores (commands.rs) and the analysis  *)
(* worker that drives the server as a client (analysis_agent.rs).          *)
(***************************************************************************)
EXTENDS Integers, Sequences, FiniteSets, TLC

(* ------------------------------ bounds --------------------------------- *)

\* Request lines the clients write in all, over all connections.
MaxLines == 2

\* Request lines the client beside the worker writes.
MaxOther == 2

\* Request lines the clients that save at the same time write in all.
MaxSaves == 3

(* ------------------------- program constants --------------------------- *)

\* fetch_content's default maxLength (mcp.rs:232).
DefaultMaxLength == 60000
\* The length fetch_content cuts the text field at (mcp.rs:264).
TextExcerptLen == 2000
\* list_job_matches' default limit (mcp.rs:307).
DefaultLimit == 50
\* The maxLength the worker asks fetch_content for (analysis_agent.rs:39).
AgentMaxLength == 120000

(* ------------------------------ values --------------------------------- *)

\* Rust's Option<T>: None, Some(v).
None == <<>>
Some(v) == <<v>>

\* serde_json::Value. Scalars carry their type as the field name, an object
\* is a record of its members under "obj".
JStr(s) == [str |-> s]
JNum(n) == [num |-> n]
JNull == [null |-> TRUE]
JObj(r) == [obj |-> r]
EmptyObj == [obj |-> <<>>]

\* Value::get(key): None on a missing key and on every value that is no object.
get(v, k) ==
    IF "obj" \in DOMAIN v /\ k \in DOMAIN v.obj THEN Some(v.obj[k]) ELSE None

\* Option<&Value>::and_then(Value::as_str)
as_str(o) ==
    IF o # None /\ "str" \in DOMAIN o[1] THEN Some(o[1].str) ELSE None

\* Option<&Value>::and_then(Value::as_u64)
as_u64(o) ==
    IF o # None /\ "num" \in DOMAIN o[1] /\ o[1].num >= 0 THEN Some(o[1].num) ELSE None

\* Option::unwrap_or
unwrap_or(o, d) == IF o = None THEN d ELSE o[1]

\* Result<T, String>
Ok(v) == [ok |-> v]
Err(m) == [err |-> m]
IsOk(r) == "ok" \in DOMAIN r

\* format!("<what>: {detail}"): an error message, its fixed text and the value
\* formatted into it.
Msg(what, detail) == [what |-> what, detail |-> detail]

(* ----------------------------- settings -------------------------------- *)

\* The camelCase members serde writes for JobSettings (settings.rs:10-20).
SettingsKeys ==
    {"preferredTitles", "locations", "keywords", "remoteOnly",
     "salaryMin", "salaryMax", "companyBlacklist"}

\* Members a JobSettings document must carry: every field that is no Option.
RequiredSettingsKeys ==
    {"preferredTitles", "locations", "keywords", "remoteOnly", "companyBlacklist"}

\* JobSettings::default() (settings.rs:22-46).
DefaultJobSettings ==
    [preferred_titles |-> <<"Software Engineer", "Full Stack Engineer",
                            "Frontend Engineer", "Backend Engineer">>,
     locations |-> <<"Remote", "United States">>,
     keywords |-> <<"TypeScript", "React", "Node.js", "Rust", "Tauri", "Next.js">>,
     remote_only |-> TRUE,
     salary_min |-> Some(120000),
     salary_max |-> Some(200000),
     company_blacklist |-> <<>>]

\* An optional member of a JSON object read into an Option: a missing member
\* and null both give None.
OptMember(doc, k) ==
    IF k \in DOMAIN doc /\ doc[k] # None THEN doc[k] ELSE None

\* serde_json::from_value::<JobSettings>: the members are renamed, unknown
\* members are dropped, a missing Option member is None, a missing other
\* member is an error.
SettingsFromValue(v) ==
    IF "obj" \in DOMAIN v /\ RequiredSettingsKeys \subseteq DOMAIN v.obj
    THEN Ok([preferred_titles |-> v.obj.preferredTitles,
             locations |-> v.obj.locations,
             keywords |-> v.obj.keywords,
             remote_only |-> v.obj.remoteOnly,
             salary_min |-> OptMember(v.obj, "salaryMin"),
             salary_max |-> OptMember(v.obj, "salaryMax"),
             company_blacklist |-> v.obj.companyBlacklist])
    ELSE Err(Msg("settings parse", "missing field"))

\* json!(settings): all seven members, None written as null.
SettingsToValue(s) ==
    JObj([preferredTitles |-> s.preferred_titles,
          locations |-> s.locations,
          keywords |-> s.keywords,
          remoteOnly |-> s.remote_only,
          salaryMin |-> s.salary_min,
          salaryMax |-> s.salary_max,
          companyBlacklist |-> s.company_blacklist])

(* ---------------------------- job matches ------------------------------ *)

\* The members of JobMatchInput that are no Option (db.rs:28-38).
RequiredMatchKeys == {"url", "match_score", "summary"}

\* The Option<String> members of JobMatchInput.
OptionalMatchKeys == {"analysis_id", "title", "company", "location", "raw_excerpt"}

\* An Option<String> member: missing or null is None, a string is Some.
OptStr(doc, k) ==
    IF k \in DOMAIN doc /\ "str" \in DOMAIN doc[k] THEN Some(doc[k].str) ELSE None

\* A JobMatchInput whose members all have defaults.
JobMatchInputFromValue_defaults(v) ==
    Ok([analysis_id |-> OptStr(v.obj, "analysis_id"),
        url |-> IF "url" \in DOMAIN v.obj THEN v.obj.url.str ELSE "",
        title |-> OptStr(v.obj, "title"),
        company |-> OptStr(v.obj, "company"),
        location |-> OptStr(v.obj, "location"),
        match_score |-> IF "match_score" \in DOMAIN v.obj THEN v.obj.match_score.num
                        ELSE [n |-> 0, d |-> 1],
        summary |-> IF "summary" \in DOMAIN v.obj THEN v.obj.summary.str ELSE "",
        raw_excerpt |-> OptStr(v.obj, "raw_excerpt")])

\* serde_json::from_value::<JobMatchInput>(arguments) (mcp.rs:297).
JobMatchInputFromValue(v) ==
    IF /\ "obj" \in DOMAIN v
       /\ RequiredMatchKeys \subseteq DOMAIN v.obj
       /\ "str" \in DOMAIN v.obj.url
       /\ "num" \in DOMAIN v.obj.match_score
       /\ "str" \in DOMAIN v.obj.summary
       /\ \A k \in OptionalMatchKeys \cap DOMAIN v.obj :
              DOMAIN v.obj[k] \subseteq {"str", "null"}
    THEN Ok([analysis_id |-> OptStr(v.obj, "analysis_id"),
             url |-> v.obj.url.str,
             title |-> OptStr(v.obj, "title"),
             company |-> OptStr(v.obj, "company"),
             location |-> OptStr(v.obj, "location"),
             match_score |-> v.obj.match_score.num,
             summary |-> v.obj.summary.str,
             raw_excerpt |-> OptStr(v.obj, "raw_excerpt")])
    ELSE Err(Msg("job match parse", "missing field"))

\* JobMatchOf with one identity for every record.
JobMatchOf_one_id(input, id, created_at) ==
    [id |-> 1,
     analysis_id |-> input.analysis_id,
     url |-> input.url,
     title |-> input.title,
     company |-> input.company,
     location |-> input.location,
     match_score |-> input.match_score,
     summary |-> input.summary,
     created_at |-> created_at,
     raw_excerpt |-> input.raw_excerpt]

\* The JobMatch that insert_match builds from its input, the identity and the
\* timestamp it drew (db.rs:109-120).
JobMatchOf(input, id, created_at) ==
    [id |-> id,
     analysis_id |-> input.analysis_id,
     url |-> input.url,
     title |-> input.title,
     company |-> input.company,
     location |-> input.location,
     match_score |-> input.match_score,
     summary |-> input.summary,
     created_at |-> created_at,
     raw_excerpt |-> input.raw_excerpt]

\* SQLite's datetime() of a timestamp (db.rs:134): the clock counts half
\* seconds, datetime() gives the whole second and drops the fraction.
datetime(created_at) == created_at \div 2

\* Insertion sort of rows by datetime(created_at), newest first; rows of one
\* second keep their table order, as with SQLite's sorter.
RECURSIVE NewestFirst(_)
NewestFirst(rows) ==
    IF rows = <<>> THEN <<>>
    ELSE LET rest == NewestFirst(Tail(rows))
             r == Head(rows)
             k == Cardinality({i \in 1..Len(rest) : datetime(rest[i].created_at) > datetime(r.created_at)})
         IN  SubSeq(rest, 1, k) \o <<r>> \o SubSeq(rest, k + 1, Len(rest))

\* Db::list_matches: ORDER BY datetime(created_at) DESC LIMIT ?1 (db.rs:123-160).
list_matches(rows, limit) ==
    LET sorted == NewestFirst(rows)
    IN  SubSeq(sorted, 1, IF limit < Len(sorted) THEN limit ELSE Len(sorted))

(* ------------------------------- pages --------------------------------- *)

\* A string that comes from a page is a sequence of runs [c, n]: n times the
\* piece c. "a" and "x" are ASCII letters that spell no word, "sp" is ASCII
\* white space, "e2" a character whose UTF-8 encoding takes two bytes; every
\* other piece is a word, a sign or a tag in ASCII, spelled by its name.
CharWidth(c) == IF c = "e2" THEN 2 ELSE 1

\* The meta elements of the pages, each one piece.
MetaCompany == "<meta name=company content=Acme>"
MetaSiteName == "<meta property=og:site_name content=Globex>"
MetaAuthor == "<meta name=author content=Bob>"
MetaBare == "<meta name=company>"

\* The tags of the pages.
Tags ==
    {"<h1>", "</h1>", "<title>", "</title>", MetaCompany, MetaSiteName, MetaAuthor,
     MetaBare}

\* The bytes of one piece.
Width(c) ==
    CASE c = "e2" -> 2
      [] c \in {"USA"} -> 3
      [] c \in {"Rust", "rust", "<h1>", "Acme"} -> 4
      [] c \in {"React", "react", "</h1>"} -> 5
      [] c \in {"Remote", "remote", "Berlin", "Globex"} -> 6
      [] c \in {"Initech", "unknown", "<title>"} -> 7
      [] c \in {"Location", "</title>", "Engineer"} -> 8
      [] c \in {"Acme Corp", "Apply now"} -> 9
      [] c = "Backend Engineer" -> 16
      [] c = "Senior Backend Engineer" -> 23
      [] c = MetaBare -> 19
      [] c = MetaAuthor -> 30
      [] c = MetaCompany -> 32
      [] c = MetaSiteName -> 43
      [] OTHER -> 1

\* str::len: the length in bytes.
RECURSIVE ByteLen(_)
ByteLen(runs) ==
    IF runs = <<>> THEN 0
    ELSE Width(Head(runs).c) * Head(runs).n + ByteLen(Tail(runs))

\* The number of characters.
RECURSIVE CharLen(_)
CharLen(runs) ==
    IF runs = <<>> THEN 0
    ELSE (Width(Head(runs).c) \div CharWidth(Head(runs).c)) * Head(runs).n
         + CharLen(Tail(runs))

\* str::is_char_boundary(k)
RECURSIVE IsCharBoundary(_, _)
IsCharBoundary(runs, k) ==
    IF k = 0 THEN TRUE
    ELSE IF runs = <<>> THEN FALSE
    ELSE LET w == Width(Head(runs).c)
             bytes == w * Head(runs).n
         IN  IF k <= bytes THEN k % CharWidth(Head(runs).c) = 0
             ELSE IsCharBoundary(Tail(runs), k - bytes)

\* s[..k] for a k that is a character boundary of s. The letters of a word
\* that is cut spell no word.
RECURSIVE Prefix(_, _)
Prefix(runs, k) ==
    IF k = 0 \/ runs = <<>> THEN <<>>
    ELSE LET w == Width(Head(runs).c)
             bytes == w * Head(runs).n
             whole == IF k \div w = 0 THEN <<>>
                      ELSE <<[c |-> Head(runs).c, n |-> k \div w]>>
             part == IF k % w = 0 THEN <<>> ELSE <<[c |-> "x", n |-> k % w]>>
         IN  IF k < bytes THEN whole \o part
             ELSE <<Head(runs)>> \o Prefix(Tail(runs), k - bytes)

\* A panic of the running task instead of a value.
Panic == [panic |-> TRUE]

\* The slice that leaves the string whole.
SliceTo_whole(runs, k) == Ok(runs)

\* The slice s[..k] of a string longer than k bytes: the prefix, or a panic
\* when byte k falls inside a character (mcp.rs:248-252, 264-268).
SliceTo(runs, k) ==
    IF ByteLen(runs) > k
    THEN IF IsCharBoundary(runs, k) THEN Ok(Prefix(runs, k)) ELSE Panic
    ELSE Ok(runs)

\* The text of a parsed plain-text document with every run of white space
\* collapsed to one space and the ends trimmed (mcp.rs:261-263).
RECURSIVE TrimLeft(_)
TrimLeft(runs) ==
    IF runs # <<>> /\ Head(runs).c = "sp" THEN TrimLeft(Tail(runs)) ELSE runs

RECURSIVE TrimRight(_)
TrimRight(runs) ==
    IF runs # <<>> /\ runs[Len(runs)].c = "sp"
    THEN TrimRight(SubSeq(runs, 1, Len(runs) - 1))
    ELSE runs

RECURSIVE Collapse(_)
Collapse(runs) ==
    IF runs = <<>> THEN <<>>
    ELSE IF Head(runs).c # "sp" THEN <<Head(runs)>> \o Collapse(Tail(runs))
    ELSE IF Len(runs) > 1 /\ runs[2].c = "sp" THEN Collapse(Tail(runs))
    ELSE <<[c |-> "sp", n |-> 1]>> \o Collapse(Tail(runs))

CollapseWhitespace(runs) == TrimRight(TrimLeft(Collapse(runs)))

\* The text of the element that the piece i of a document opens: the pieces
\* up to the next tag.
RECURSIVE UpToTag(_)
UpToTag(runs) ==
    IF runs = <<>> \/ Head(runs).c \in Tags THEN <<>>
    ELSE <<Head(runs)>> \o UpToTag(Tail(runs))

ElementText(runs, i) == UpToTag(SubSeq(runs, i + 1, Len(runs)))

\* document.select(tag): the places of the elements of a tag, in document
\* order.
Select(runs, tag) == {i \in 1..Len(runs) : runs[i].c = tag}

\* document.select(tag).next(): the text of the first element of the tag.
FirstText(runs, tag) ==
    IF Select(runs, tag) = {} THEN None
    ELSE Some(ElementText(runs, CHOOSE i \in Select(runs, tag) :
                                  \A j \in Select(runs, tag) : i <= j))

\* document.root_element().text() joined with " ": the text nodes of the
\* document, a space where a tag stands between two of them.
RootText(runs) ==
    [i \in 1..Len(runs) |-> IF runs[i].c \in Tags THEN [c |-> "sp", n |-> 1] ELSE runs[i]]

\* What fetch_content makes of a response (mcp.rs:243-276): the body cut at
\* max_length bytes, the title of the document (empty when it has none),
\* the collapsed text cut at 2000 bytes: the result, or the panic of a cut
\* inside a character.
fetch_result(url, max_length, page) ==
    LET trimmed == SliceTo(page.html, max_length)
    IN  IF ~IsOk(trimmed) THEN Panic
        ELSE LET text == CollapseWhitespace(RootText(trimmed.ok))
                 text_excerpt == SliceTo(text, TextExcerptLen)
             IN  IF ~IsOk(text_excerpt) THEN Panic
                 ELSE Ok([status |-> page.status,
                          url |-> url,
                          title |-> unwrap_or(FirstText(trimmed.ok, "<title>"), <<>>),
                          html |-> trimmed.ok,
                          text |-> text_excerpt.ok])

(* ------------------------------ analysis ------------------------------- *)

\* An f64 that is the ratio n/d of two integers, d > 0, in lowest terms.
RECURSIVE Gcd(_, _)
Gcd(a, b) == IF b = 0 THEN a ELSE Gcd(b, a % b)

F64(n, d) ==
    LET g == Gcd(IF n < 0 THEN 0 - n ELSE n, d)
    IN  [n |-> n \div g, d |-> d \div g]

Plus(x, k) == F64(x.n + k * x.d, x.d)

\* clamp that leaves its argument as it is.
clamp_none(x, lo, hi) == x

\* f64::clamp(lo, hi)
clamp(x, lo, hi) ==
    IF x.n < lo * x.d THEN F64(lo, 1)
    ELSE IF x.n > hi * x.d THEN F64(hi, 1)
    ELSE x

\* format!("{:.0}", x) for x >= 0: the nearest integer, a tie to the even one.
Rounded(x) ==
    LET q == x.n \div x.d
        r == x.n % x.d
    IN  IF 2 * r < x.d THEN q
        ELSE IF 2 * r > x.d THEN q + 1
        ELSE IF q % 2 = 0 THEN q ELSE q + 1

\* str::to_lowercase of a piece or of a word of the settings.
to_lowercase(w) ==
    CASE w = "Rust" -> "rust"
      [] w = "React" -> "react"
      [] w = "Remote" -> "remote"
      [] w = "Location" -> "location"
      [] w = "TypeScript" -> "typescript"
      [] w = "Node.js" -> "node.js"
      [] w = "Tauri" -> "tauri"
      [] w = "Next.js" -> "next.js"
      [] w = "Go" -> "go"
      [] w = "Berlin" -> "berlin"
      [] w = "United States" -> "united states"
      [] w = "Initech" -> "initech"
      [] w = "Software Engineer" -> "software engineer"
      [] w = "Full Stack Engineer" -> "full stack engineer"
      [] w = "Frontend Engineer" -> "frontend engineer"
      [] w = "Backend Engineer" -> "backend engineer"
      [] OTHER -> w

\* String::to_lowercase of a string of a page.
Lowercase(runs) ==
    [i \in 1..Len(runs) |-> [c |-> to_lowercase(runs[i].c), n |-> runs[i].n]]

\* str::contains: the word occurs where the page spells it.
Contains(runs, word) ==
    word = "" \/ \E i \in 1..Len(runs) : runs[i].c = word

\* str::trim
Trim(runs) == TrimRight(TrimLeft(runs))

\* The place of the last part of value.split(sep) for the separator " sep ":
\* the matches are taken from the left and do not overlap, so a separator
\* whose leading space was the trailing space of the match before is none
\* (analysis_agent.rs:318).
RECURSIVE LastMatch(_, _, _, _)
LastMatch(runs, sep, i, last) ==
    IF i > Len(runs) - 1 THEN last
    ELSE IF /\ runs[i] = [c |-> sep, n |-> 1]
            /\ runs[i - 1].c = "sp"
            /\ runs[i + 1].c = "sp"
            /\ (last > 0 /\ last = i - 2) => runs[i - 1].n >= 2
         THEN LastMatch(runs, sep, i + 1, i)
         ELSE LastMatch(runs, sep, i + 1, last)

\* The trimmed last part when value.split(sep) has two parts or more
\* (analysis_agent.rs:318-321).
AfterLast(runs, sep) ==
    LET i == LastMatch(runs, sep, 2, 0)
    IN  IF i = 0 THEN None
        ELSE Some(Trim(SubSeq(runs, i + 1, Len(runs))))

\* The separators tried with " | " before " - ".
split_company_pipe_first(value) ==
    IF AfterLast(value, "|") # None THEN AfterLast(value, "|")
    ELSE IF AfterLast(value, "-") # None THEN AfterLast(value, "-")
    ELSE AfterLast(value, "@")

\* split_company_from_title (analysis_agent.rs:315-324).
split_company_from_title(value) ==
    IF AfterLast(value, "-") # None THEN AfterLast(value, "-")
    ELSE IF AfterLast(value, "|") # None THEN AfterLast(value, "|")
    ELSE AfterLast(value, "@")

\* The pieces the class [A-Za-z0-9 ,./-] takes.
InLocationClass(c) == c \notin {"e2", ":", "|", "@"} \union Tags

\* The longest run of pieces of the class at the head of a string.
RECURSIVE ClassPrefix(_)
ClassPrefix(runs) ==
    IF runs = <<>> \/ ~InLocationClass(Head(runs).c) THEN <<>>
    ELSE <<Head(runs)>> \o ClassPrefix(Tail(runs))

\* The number of runs of colons and white space at the head of a string.
RECURSIVE SeparatorRuns(_)
SeparatorRuns(runs) ==
    IF runs = <<>> \/ Head(runs).c \notin {"sp", ":"} THEN 0
    ELSE 1 + SeparatorRuns(Tail(runs))

\* What the pattern Location[:\s]+([A-Za-z0-9 ,./-]{3,60}) captures where
\* the piece i of text is Location, None when it does not match there. The
\* colons and white space are taken greedily; white space at their end is
\* given back to the capture, one character at a time and never the last
\* character of them, while the capture is shorter than 3 characters.
CaptureAt(text, i) ==
    LET rest == SubSeq(text, i + 1, Len(text))
        k == SeparatorRuns(rest)
        seps == SubSeq(rest, 1, k)
        class == ClassPrefix(SubSeq(rest, k + 1, Len(rest)))
        trailing == IF k > 0 /\ seps[k].c = "sp" THEN seps[k].n ELSE 0
        spare == IF trailing < ByteLen(seps) THEN trailing ELSE trailing - 1
        back == {g \in 0..spare : g + ByteLen(class) >= 3}
    IN  IF text[i].c # "Location" \/ k = 0 \/ back = {} THEN None
        ELSE LET g == CHOOSE x \in back : \A y \in back : x <= y
                 given == IF g = 0 THEN <<>> ELSE <<[c |-> "sp", n |-> g]>>
             IN  Some(Prefix(given \o class, 60))

\* extract_location (analysis_agent.rs:326-335): the capture of the first
\* match, trimmed; None without a match or with an empty capture.
extract_location(text) ==
    LET at == {i \in 1..Len(text) : CaptureAt(text, i) # None}
    IN  IF at = {} THEN None
        ELSE LET i == CHOOSE j \in at : \A k \in at : j <= k
                 location == Trim(CaptureAt(text, i)[1])
             IN  IF location = <<>> THEN None ELSE Some(location)

\* The key of a meta element, its property before its name, and its content
\* (analysis_agent.rs:301-309).
MetaKey(c) ==
    CASE c = MetaCompany -> "company"
      [] c = MetaSiteName -> "og:site_name"
      [] c = MetaAuthor -> "author"
      [] c = MetaBare -> "company"

MetaContent(c) ==
    CASE c = MetaCompany -> Some(<<[c |-> "Acme", n |-> 1]>>)
      [] c = MetaSiteName -> Some(<<[c |-> "Globex", n |-> 1]>>)
      [] c = MetaAuthor -> Some(<<[c |-> "Bob", n |-> 1]>>)
      [] c = MetaBare -> None

\* extract_company (analysis_agent.rs:298-313): the content of the first
\* meta element that has one of the three keys and a content.
extract_company(document) ==
    LET at == {i \in 1..Len(document) :
                  /\ document[i].c \in {MetaCompany, MetaSiteName, MetaAuthor, MetaBare}
                  /\ MetaKey(document[i].c) \in {"og:site_name", "application-name", "company"}
                  /\ MetaContent(document[i].c) # None}
    IN  IF at = {} THEN None
        ELSE MetaContent(document[CHOOSE i \in at : \A j \in at : i <= j].c)

\* The title of extract_listing (analysis_agent.rs:195-206): the text of the
\* first h1 unless it is blank, else the fallback title unless it is blank.
listing_title(document, default_title) ==
    LET h1 == FirstText(document, "<h1>")
    IN  IF h1 # None /\ Trim(h1[1]) # <<>> THEN h1
        ELSE IF Trim(default_title) = <<>> THEN None
        ELSE Some(default_title)

\* The company with the title split although a meta element gives one.
listing_company_title_first(document, title) ==
    IF title # None /\ split_company_from_title(title[1]) # None
    THEN split_company_from_title(title[1])
    ELSE extract_company(document)

\* The company of extract_listing (analysis_agent.rs:208-212).
listing_company(document, title) ==
    IF extract_company(document) # None THEN extract_company(document)
    ELSE IF title = None THEN None
    ELSE split_company_from_title(title[1])

\* extract_listing (analysis_agent.rs:192-230); the excerpt is text[..400],
\* which panics when byte 400 falls inside a character.
extract_listing(html, text, default_title) ==
    LET title == listing_title(html, default_title)
        excerpt == SliceTo(text, 400)
    IN  IF ~IsOk(excerpt) THEN Panic
        ELSE Ok([title |-> title,
                 company |-> listing_company(html, title),
                 location |-> extract_location(text),
                 text |-> text,
                 raw_excerpt |-> IF text = <<>> THEN None ELSE Some(excerpt.ok)])

\* AnyIn without the test for the empty word.
AnyIn_empty(words, runs) ==
    \E i \in 1..Len(words) : Contains(Lowercase(runs), to_lowercase(words[i]))

\* Whether one of the words, none of them empty, occurs in the string.
AnyIn(words, runs) ==
    \E i \in 1..Len(words) :
        words[i] # "" /\ Contains(Lowercase(runs), to_lowercase(words[i]))

\* match_listing (analysis_agent.rs:232-296)
match_listing(extracted, settings) ==
    LET text_lower == Lowercase(extracted.text)
        keywords == settings.keywords
        hits == Cardinality({i \in 1..Len(keywords) :
                                Contains(text_lower, to_lowercase(keywords[i]))})
        base == IF keywords = <<>> THEN F64(50, 1) ELSE F64(hits * 100, Len(keywords))
        title == IF extracted.title # None
                    /\ AnyIn(settings.preferred_titles, extracted.title[1])
                 THEN 10 ELSE 0
        location == IF extracted.location # None
                       /\ AnyIn(settings.locations, extracted.location[1])
                    THEN 6 ELSE 0
        remote == IF settings.remote_only /\ Contains(text_lower, "remote")
                  THEN 8 ELSE 0
        blacklist == IF extracted.company # None
                        /\ AnyIn(settings.company_blacklist, extracted.company[1])
                     THEN 15 ELSE 0
        score == clamp(Plus(base, title + location + remote - blacklist), 0, 100)
    IN  [summary |-> [matched |-> Rounded(score),
                      remote |-> IF settings.remote_only THEN "on" ELSE "off",
                      title |-> unwrap_or(extracted.title, <<[c |-> "unknown", n |-> 1]>>)],
         match_score |-> score]

(* ------------------------------- tools --------------------------------- *)

\* tool_definitions without its last entry.
tool_definitions_short ==
    << [name |-> "set_query_params", properties |-> {"url", "analysisId"}],
       [name |-> "fetch_content", properties |-> {"url", "maxLength"}],
       [name |-> "reload_page", properties |-> {}],
       [name |-> "get_settings", properties |-> {}],
       [name |-> "set_settings", properties |-> {"settings"}],
       [name |-> "save_job_match",
        properties |-> {"analysis_id", "url", "title", "company", "location",
                        "match_score", "summary", "raw_excerpt"}],
       [name |-> "list_job_matches", properties |-> {"limit"}] >>

\* tool_definitions(): the table list_tools returns (mcp.rs:133-207); each
\* entry with its name and the properties of its input schema.
tool_definitions ==
    << [name |-> "set_query_params", properties |-> {"url", "analysisId"}],
       [name |-> "fetch_content", properties |-> {"url", "maxLength"}],
       [name |-> "reload_page", properties |-> {}],
       [name |-> "get_settings", properties |-> {}],
       [name |-> "set_settings", properties |-> {"settings"}],
       [name |-> "save_job_match",
        properties |-> {"analysis_id", "url", "title", "company", "location",
                        "match_score", "summary", "raw_excerpt"}],
       [name |-> "list_job_matches", properties |-> {"limit"}],
       [name |-> "clear_job_matches", properties |-> {}] >>

\* A notification that carries nothing.
Event_no_payload(name, payload) == [name |-> name, payload |-> EmptyObj]

\* A UI notification: app.emit(name, payload).
Event(name, payload) == [name |-> name, payload |-> payload]

\* What one call of handle_tool does up to its first suspension: the result
\* it returns (ret), or the operation it is suspended in (await: an HTTP
\* exchange, or the insert on the record store) with what that operation
\* needs (pend); the settings store it leaves; the notifications it emits;
\* whether it empties the record store.
Effect(ret, await, pend, st, emits, clear) ==
    [ret |-> ret, await |-> await, pend |-> pend, store |-> st,
     emits |-> emits, clear |-> clear]

Returns(ret, st) == Effect(ret, "none", None, st, <<>>, FALSE)

\* load_settings (settings.rs:64-75): the stored value read back as
\* JobSettings; io is whether the store could be opened.
load_settings(st, io) ==
    IF io # "ok" THEN Err(Msg("store load", io))
    ELSE IF st = None THEN Ok(None)
    ELSE LET parsed == SettingsFromValue(st[1])
         IN  IF IsOk(parsed) THEN Ok(Some(parsed.ok)) ELSE parsed

\* save_settings without the store.set before the save.
save_settings_unset(st, settings, io) ==
    IF io = "open failed" THEN [ret |-> Err(Msg("store load", io)), store |-> st]
    ELSE IF io = "save failed" THEN [ret |-> Err(Msg("store save", io)), store |-> st]
    ELSE [ret |-> Ok(settings), store |-> st]

\* save_settings (settings.rs:77-84): [ret, store]. The value is set in the
\* store before it is saved to disk, so a failed save leaves it set.
save_settings(st, settings, io) ==
    IF io = "open failed" THEN [ret |-> Err(Msg("store load", io)), store |-> st]
    ELSE IF io = "save failed"
         THEN [ret |-> Err(Msg("store save", io)),
               store |-> Some(SettingsToValue(settings))]
    ELSE [ret |-> Ok(settings), store |-> Some(SettingsToValue(settings))]

\* json!(saved): a JobMatch as a JSON object, None written as null.
OptToValue(o) == IF o = None THEN JNull ELSE JStr(o[1])

JobMatchToValue(m) ==
    JObj([id |-> JStr(m.id),
          analysis_id |-> OptToValue(m.analysis_id),
          url |-> JStr(m.url),
          title |-> OptToValue(m.title),
          company |-> OptToValue(m.company),
          location |-> OptToValue(m.location),
          match_score |-> JNum(m.match_score),
          summary |-> JStr(m.summary),
          created_at |-> JNum(m.created_at),
          raw_excerpt |-> OptToValue(m.raw_excerpt)])

\* The outcomes of the settings store's I/O that a tool can meet.
StoreOutcomes(name) ==
    CASE name = "get_settings" -> {"ok", "open failed"}
      [] name = "set_settings" -> {"ok", "open failed", "save failed"}
      [] OTHER -> {"ok"}

\* unknown_tool without the name in its message.
unknown_tool_nameless(name) == Err(Msg("unknown tool", ""))

\* The error of the arm for every other name (mcp.rs:315).
unknown_tool(name) == Err(Msg("unknown tool", name))

\* handle_tool (mcp.rs:209-317), up to its first suspension. st is the
\* settings store, rows the record store, io the outcome of the store's I/O.
handle_tool(name, arguments, st, rows, io) ==
    CASE name = "set_query_params" ->
           Effect(Ok([ok |-> TRUE]), "none", None, st,
                  <<Event("mcp:set-query-params",
                          [url |-> unwrap_or(get(arguments, "url"), JNull),
                           analysisId |-> unwrap_or(get(arguments, "analysisId"), JNull)])>>,
                  FALSE)
      [] name = "fetch_content" ->
           LET url == as_str(get(arguments, "url"))
               max_length == unwrap_or(as_u64(get(arguments, "maxLength")), DefaultMaxLength)
           IN  IF url = None THEN Returns(Err(Msg("url is required", "")), st)
               ELSE Effect(None, "fetch", [url |-> url[1], max_length |-> max_length],
                           st, <<>>, FALSE)
      [] name = "reload_page" ->
           Effect(Ok([ok |-> TRUE]), "none", None, st,
                  <<Event("mcp:reload", EmptyObj)>>, FALSE)
      [] name = "get_settings" ->
           LET loaded == load_settings(st, io)
           IN  IF ~IsOk(loaded) THEN Returns(loaded, st)
               ELSE Returns(Ok([settings |->
                        SettingsToValue(unwrap_or(loaded.ok, DefaultJobSettings))]), st)
      [] name = "set_settings" ->
           LET settings_value == unwrap_or(get(arguments, "settings"), EmptyObj)
               settings == SettingsFromValue(settings_value)
           IN  IF ~IsOk(settings) THEN Returns(settings, st)
               ELSE LET saved == save_settings(st, settings.ok, io)
                    IN  IF ~IsOk(saved.ret) THEN Returns(saved.ret, saved.store)
                        ELSE Returns(Ok([settings |-> SettingsToValue(saved.ret.ok)]),
                                     saved.store)
      [] name = "save_job_match" ->
           LET input == JobMatchInputFromValue(arguments)
           IN  IF ~IsOk(input) THEN Returns(input, st)
               ELSE Effect(None, "insert", input.ok, st, <<>>, FALSE)
      [] name = "list_job_matches" ->
           LET limit == unwrap_or(as_u64(get(arguments, "limit")), DefaultLimit)
               matches == list_matches(rows, limit)
           IN  Returns(Ok([matches |->
                   [i \in 1..Len(matches) |-> JobMatchToValue(matches[i])]]), st)
      [] name = "clear_job_matches" ->
           Effect(Ok([ok |-> TRUE]), "none", None, st, <<>>, TRUE)
      [] OTHER -> Returns(unknown_tool(name), st)

(* --------------------------- handle_client ----------------------------- *)

\* serde_json::from_str(line.trim()) (mcp.rs:71): a line is either the JSON
\* value it spells (json) or text that is no JSON (bad).
parse_line(line) ==
    IF "json" \in DOMAIN line THEN Ok(line.json)
    ELSE Err(Msg("invalid json", line.bad))

\* request_method with a request without a method taken as initialize.
request_method_default(request) ==
    unwrap_or(as_str(get(request, "method")), "initialize")

\* mcp.rs:86-88
request_id(request) == unwrap_or(get(request, "id"), JNull)
request_method(request) == unwrap_or(as_str(get(request, "method")), "")
request_params(request) == unwrap_or(get(request, "params"), EmptyObj)

\* mcp.rs:105-112
tool_name(params) == unwrap_or(as_str(get(params, "name")), "")
tool_arguments(params) == unwrap_or(get(params, "arguments"), EmptyObj)

\* The response envelope without the id of the request.
respond_unmatched(id, ret) ==
    IF IsOk(ret) THEN [id |-> JNull, result |-> ret.ok]
    ELSE [id |-> JNull, error |-> [message |-> ret.err]]

\* The response envelope of a Result (mcp.rs:113-116).
respond(id, ret) ==
    IF IsOk(ret) THEN [id |-> id, result |-> ret.ok]
    ELSE [id |-> id, error |-> [message |-> ret.err]]

\* invalid_json_response with the id 0 in the place of null.
invalid_json_response_zero(err) == [id |-> JNum(0), error |-> [message |-> err]]

\* The envelope written for a line that is no JSON (mcp.rs:74-77).
invalid_json_response(err) == [id |-> JNull, error |-> [message |-> err]]

\* The error of the arm for every other method (mcp.rs:118-121).
unknown_method(method) == Err(Msg("unknown method", method))

\* The match on the method (mcp.rs:90-122), up to the first suspension of
\* handle_tool: [tool: whether handle_tool was called, eff: what the arm did].
dispatch(request, st, rows, io) ==
    LET method == request_method(request)
        params == request_params(request)
    IN  CASE method = "initialize" ->
               [tool |-> FALSE,
                eff |-> Returns(Ok([protocolVersion |-> "0.1",
                                    serverInfo |-> [name |-> "job-hunter-mcp",
                                                    version |-> "0.1.0"]]), st)]
          [] method = "list_tools" ->
               [tool |-> FALSE, eff |-> Returns(Ok([tools |-> tool_definitions]), st)]
          [] method = "call_tool" ->
               [tool |-> TRUE,
                eff |-> handle_tool(tool_name(params), tool_arguments(params),
                                    st, rows, io)]
          [] OTHER ->
               [tool |-> FALSE, eff |-> Returns(unknown_method(method), st)]

\* The store outcomes a request line can meet.
LineOutcomes(line) ==
    IF "json" \in DOMAIN line /\ request_method(line.json) = "call_tool"
    THEN StoreOutcomes(tool_name(request_params(line.json)))
    ELSE {"ok"}

(* ------------------------------- state --------------------------------- *)

VARIABLES
    sent,        \* per connection: the request lines the client has written
    nread,       \* per connection: how many of them read_line has returned
    out,         \* per connection: the response lines the server has written
    pc,          \* per connection: where its handle_client task stands
    why,         \* per connection: what ended the task
    pend,        \* per connection: what the suspended tool call works on
    clientOpen,  \* per connection: the client has not closed its end
    menu,        \* per connection: the lines its client may write
    store,       \* the settings store: the value under the settings key
    rows,        \* the record store: the job_matches table in insertion order
    events,      \* the UI notifications emitted so far
    nTool,       \* per connection: calls of handle_tool so far
    nextId,      \* identities drawn so far
    clock,       \* the wall clock
    lastWrite,   \* history: the last set_settings call that set the settings
                 \* store, and whether the UI has set the store since
    agent        \* the analysis worker: its position and its locals

vars ==
    <<sent, nread, out, pc, why, pend, clientOpen, menu, store, rows, events,
      nTool, nextId, clock, lastWrite, agent>>

Conns == {"c1", "c2"}

\* The request being handled on c: the last line read.
CurRequest(c) == sent[c][nread[c]].json

\* The outcomes of writer.write_all: a write to a peer that has closed may
\* fail.
WriteOutcomes(c) == IF clientOpen[c] THEN {"written"} ELSE {"written", "write error"}

\* Reply with the response put before the responses already written.
Reply_front(c, r, w) ==
    IF w = "written"
    THEN /\ out' = [out EXCEPT ![c] = <<r>> \o @]
         /\ pc' = [pc EXCEPT ![c] = "AwaitingLine"]
         /\ UNCHANGED why
    ELSE /\ pc' = [pc EXCEPT ![c] = "Closed"]
         /\ why' = [why EXCEPT ![c] = "write error"]
         /\ UNCHANGED out

\* writer.write_all(response) (mcp.rs:78-82, 124-127): the line is written
\* and the loop goes on, or the write fails and ends the task.
Reply(c, r, w) ==
    IF w = "written"
    THEN /\ out' = [out EXCEPT ![c] = Append(@, r)]
         /\ pc' = [pc EXCEPT ![c] = "AwaitingLine"]
         /\ UNCHANGED why
    ELSE /\ pc' = [pc EXCEPT ![c] = "Closed"]
         /\ why' = [why EXCEPT ![c] = "write error"]
         /\ UNCHANGED out

\* History: the request is a set_settings call that reaches store.set.
SettingsArgument(request) ==
    unwrap_or(get(tool_arguments(request_params(request)), "settings"), EmptyObj)

SetsStore(request, io) ==
    /\ request_method(request) = "call_tool"
    /\ tool_name(request_params(request)) = "set_settings"
    /\ IsOk(SettingsFromValue(SettingsArgument(request)))
    /\ io # "open failed"

\* One pass of the loop of handle_client (mcp.rs:61-128), from read_line to
\* the write of the response or to the suspension of handle_tool in its HTTP
\* exchange or at the lock of the record store. insert_match draws the
\* identity and the timestamp before it takes the lock (db.rs:77-85). A line
\* that is no UTF-8 makes read_line fail and ends the task.
HandleLine(c) ==
    /\ pc[c] = "AwaitingLine"
    /\ nread[c] < Len(sent[c])
    /\ nread' = [nread EXCEPT ![c] = @ + 1]
    /\ LET line == sent[c][nread[c] + 1]
           parsed == parse_line(line)
       IN  IF "bad" \in DOMAIN line /\ line.bad = "not utf-8"
           THEN /\ pc' = [pc EXCEPT ![c] = "Closed"]
                /\ why' = [why EXCEPT ![c] = "read error"]
                /\ UNCHANGED <<out, pend, store, rows, events, nTool, nextId, clock,
                               lastWrite>>
           ELSE IF ~IsOk(parsed)
           THEN /\ \E w \in WriteOutcomes(c) :
                      Reply(c, invalid_json_response(parsed.err), w)
                /\ UNCHANGED <<pend, store, rows, events, nTool, nextId, clock,
                               lastWrite>>
           ELSE \E io \in LineOutcomes(line) :
                  \E d \in {dispatch(parsed.ok, store, rows, io)} :
                      /\ nTool' = [nTool EXCEPT ![c] = IF d.tool THEN @ + 1 ELSE @]
                      /\ store' = d.eff.store
                      /\ lastWrite' = IF SetsStore(parsed.ok, io)
                                      THEN Some([by |-> c,
                                                 arg |-> SettingsArgument(parsed.ok),
                                                 ret |-> d.eff.ret,
                                                 ui |-> FALSE])
                                      ELSE lastWrite
                      /\ events' = events \o d.eff.emits
                      /\ rows' = IF d.eff.clear THEN <<>> ELSE rows
                      /\ CASE d.eff.await = "none" ->
                                /\ \E w \in WriteOutcomes(c) :
                                      Reply(c, respond(request_id(parsed.ok), d.eff.ret), w)
                                /\ UNCHANGED <<pend, nextId, clock>>
                           [] d.eff.await = "fetch" ->
                                /\ pc' = [pc EXCEPT ![c] = "Fetching"]
                                /\ pend' = [pend EXCEPT ![c] = Some(d.eff.pend)]
                                /\ UNCHANGED <<out, why, nextId, clock>>
                           [] d.eff.await = "insert" ->
                                \E now \in {clock, clock + 1} :
                                   /\ pc' = [pc EXCEPT ![c] = "Inserting"]
                                   /\ clock' = now
                                   /\ nextId' = nextId + 1
                                   /\ pend' = [pend EXCEPT ![c] =
                                        Some(JobMatchOf(d.eff.pend, nextId + 1, now))]
                                   /\ UNCHANGED <<out, why>>
    /\ UNCHANGED <<sent, clientOpen, menu, agent>>

\* The pages a URL may bring. The first: short ASCII text, or two two-byte
\* characters. The others: text with runs of white space, a body whose byte
\* 2000 falls inside a two-byte character, a long ASCII body, a body whose
\* byte 400 falls inside a two-byte character, a body with words.
Web(url) ==
    IF url = "https://jobs/1"
    THEN { [status |-> 200, html |-> <<[c |-> "a", n |-> 10]>>],
           [status |-> 200, html |-> <<[c |-> "e2", n |-> 2]>>] }
    ELSE { [status |-> 404, html |-> <<[c |-> "sp", n |-> 2], [c |-> "a", n |-> 3],
                                        [c |-> "sp", n |-> 4], [c |-> "a", n |-> 2]>>],
           [status |-> 200, html |-> <<[c |-> "a", n |-> 1999], [c |-> "e2", n |-> 1],
                                        [c |-> "a", n |-> 5]>>],
           [status |-> 200, html |-> <<[c |-> "a", n |-> 2500]>>],
           [status |-> 200, html |-> <<[c |-> "a", n |-> 399], [c |-> "e2", n |-> 1],
                                        [c |-> "a", n |-> 10]>>],
           [status |-> 200, html |-> <<[c |-> "Rust", n |-> 1], [c |-> "sp", n |-> 2],
                                        [c |-> "Location", n |-> 1], [c |-> ":", n |-> 1],
                                        [c |-> "sp", n |-> 1], [c |-> "Remote", n |-> 1],
                                        [c |-> "e2", n |-> 1]>>] }

\* The HTTP exchange of fetch_content ends (mcp.rs:238-276): with an error of
\* the request or of the body, or with a page; a cut inside a character
\* panics, which ends the task without a response.
FetchOutcomes(url) ==
    {[err |-> "http fetch"], [err |-> "http body"]} \cup {[page |-> p] : p \in Web(url)}

FetchDone(c) ==
    /\ pc[c] = "Fetching"
    /\ \E o \in FetchOutcomes(pend[c][1].url) :
         LET ret == IF "err" \in DOMAIN o THEN Err(Msg(o.err, "reqwest"))
                    ELSE fetch_result(pend[c][1].url, pend[c][1].max_length, o.page)
         IN  IF ret = Panic
             THEN /\ pc' = [pc EXCEPT ![c] = "Closed"]
                  /\ why' = [why EXCEPT ![c] = "panic"]
                  /\ UNCHANGED out
             ELSE \E w \in WriteOutcomes(c) :
                     Reply(c, respond(request_id(CurRequest(c)), ret), w)
    /\ pend' = [pend EXCEPT ![c] = None]
    /\ UNCHANGED <<sent, nread, clientOpen, menu, store, rows, events, nTool,
                   nextId, clock, lastWrite, agent>>

\* INSERT with the row written twice.
insert_row_twice(table, row) == Append(Append(table, row), row)

\* INSERT INTO job_matches (db.rs:86-107): one more row in the table.
insert_row(table, row) == Append(table, row)

\* The rest of Db::insert_match, under the lock of the record store
\* (db.rs:82-121), and of save_job_match (mcp.rs:300-301).
Insert(c) ==
    /\ pc[c] = "Inserting"
    /\ \E io \in {"ok", "insert failed"} : \E w \in WriteOutcomes(c) :
         IF io = "ok"
         THEN LET saved == pend[c][1]
              IN  /\ rows' = insert_row(rows, saved)
                  /\ events' = Append(events,
                         Event("analysis:completed", [match |-> JobMatchToValue(saved)]))
                  /\ Reply(c, respond(request_id(CurRequest(c)),
                                      Ok([match |-> JobMatchToValue(saved)])), w)
         ELSE /\ Reply(c, respond(request_id(CurRequest(c)),
                                  Err(Msg("insert job match", io))), w)
              /\ UNCHANGED <<rows, events>>
    /\ pend' = [pend EXCEPT ![c] = None]
    /\ UNCHANGED <<sent, nread, clientOpen, menu, store, nTool, nextId, clock, lastWrite, agent>>

\* read_line returns 0 bytes: the peer has closed and nothing is left to
\* read (mcp.rs:67-69).
ReadEof(c) ==
    /\ pc[c] = "AwaitingLine"
    /\ ~clientOpen[c]
    /\ nread[c] = Len(sent[c])
    /\ pc' = [pc EXCEPT ![c] = "Closed"]
    /\ why' = [why EXCEPT ![c] = "peer closed"]
    /\ UNCHANGED <<sent, nread, out, pend, clientOpen, menu, store, rows,
                   events, nTool, nextId, clock, lastWrite, agent>>

(* ------------------------------ clients -------------------------------- *)

\* A request line spelling the object r.
Line(r) == [json |-> JObj(r)]

\* A request that carries the id "1" whatever its place.
Request_first_id(id, method, params) ==
    Line([id |-> JStr("1"), method |-> JStr(method), params |-> params])

\* A request line: id, method and params (analysis_agent.rs:144).
Request(id, method, params) ==
    Line([id |-> id, method |-> JStr(method), params |-> params])

CallTool(id, name, arguments) ==
    Request(id, "call_tool", JObj([name |-> JStr(name), arguments |-> JObj(arguments)]))

\* Settings documents a client may send: all seven members; no salary
\* members; an extra member the settings do not know; a member missing.
DocFull ==
    JObj([preferredTitles |-> <<"Backend Engineer">>, locations |-> <<"Remote">>,
          keywords |-> <<"Rust", "React">>, remoteOnly |-> TRUE,
          salaryMin |-> Some(100000), salaryMax |-> None,
          companyBlacklist |-> <<"Initech">>])
DocNoSalary ==
    JObj([preferredTitles |-> <<>>, locations |-> <<>>, keywords |-> <<>>,
          remoteOnly |-> FALSE, companyBlacklist |-> <<>>])
DocExtra ==
    JObj([preferredTitles |-> <<>>, locations |-> <<"Berlin">>, keywords |-> <<"Go">>,
          remoteOnly |-> FALSE, salaryMin |-> None, salaryMax |-> None,
          companyBlacklist |-> <<>>, theme |-> "dark"])
DocMissing ==
    JObj([preferredTitles |-> <<>>, locations |-> <<>>, remoteOnly |-> TRUE])

\* Lines of the protocol itself: the three methods, with and without an id;
\* methods and values the server does not know; text that is no JSON; bytes
\* that are no UTF-8.
ProtocolLines ==
    { Request(JStr("1"), "initialize", EmptyObj),
      Line([method |-> JStr("list_tools")]),
      Request(JNum(7), "shutdown", EmptyObj),
      Line([id |-> JStr("2")]),
      Line([id |-> JStr("3"), method |-> JNum(5)]),
      [json |-> JNum(42)],
      [bad |-> "no json"],
      [bad |-> "not utf-8"] }

\* Calls of tools the server does not have: an unknown name, no name, a name
\* that is no string.
UnknownToolLines ==
    { CallTool(JStr("4"), "delete_all", <<>>),
      Request(JStr("5"), "call_tool", EmptyObj),
      Request(JStr("6"), "call_tool", JObj([name |-> JNum(1)])) }

SettingsLines ==
    { CallTool(JStr("g"), "get_settings", <<>>),
      CallTool(JStr("s1"), "set_settings", [settings |-> DocFull]),
      CallTool(JStr("s2"), "set_settings", [settings |-> DocNoSalary]),
      CallTool(JStr("s3"), "set_settings", [settings |-> DocExtra]),
      CallTool(JStr("s4"), "set_settings", [settings |-> DocMissing]) }

\* One call of each tool.
ToolLines ==
    { CallTool(JStr("g"), "get_settings", <<>>),
      CallTool(JStr("s1"), "set_settings", [settings |-> DocFull]),
      CallTool(JStr("q"), "set_query_params",
               [url |-> JStr("https://jobs/1"), analysisId |-> JStr("a-1")]),
      CallTool(JNull, "reload_page", <<>>),
      CallTool(JStr("f1"), "fetch_content", [url |-> JStr("https://jobs/1")]),
      CallTool(JStr("f2"), "fetch_content",
               [url |-> JStr("https://jobs/1"), maxLength |-> JNum(3)]),
      CallTool(JStr("m1"), "save_job_match",
               [url |-> JStr("https://jobs/1"), match_score |-> JNum(F64(58, 1)),
                summary |-> JStr("Matched 58%"), title |-> JStr("Engineer"),
                company |-> JNull]),
      CallTool(JStr("l2"), "list_job_matches", <<>>),
      CallTool(JStr("x"), "clear_job_matches", <<>>) }

\* What the client of the first connection may write, and (fewer lines, one
\* of them with an id the first connection uses too) the client of the second.
Lines == ProtocolLines \cup UnknownToolLines \cup ToolLines

OtherLines ==
    { Request(JStr("1"), "initialize", EmptyObj),
      [bad |-> "no json"],
      CallTool(JStr("x"), "clear_job_matches", <<>>) }

\* The lines written so far, over all connections.
RECURSIVE Written(_, _)
Written(s, cs) ==
    IF cs = {} THEN 0
    ELSE LET c == CHOOSE x \in cs : TRUE IN Len(s[c]) + Written(s, cs \ {c})

\* A client writes one more line on its connection.
ClientSend(c) ==
    /\ clientOpen[c]
    /\ pc[c] # "Closed"
    /\ Written(sent, Conns) < MaxLines
    /\ \E line \in menu[c] : sent' = [sent EXCEPT ![c] = Append(@, line)]
    /\ UNCHANGED <<nread, out, pc, why, pend, clientOpen, menu, store, rows,
                   events, nTool, nextId, clock, lastWrite, agent>>

\* A client closes its end of the connection.
ClientClose(c) ==
    /\ clientOpen[c]
    /\ clientOpen' = [clientOpen EXCEPT ![c] = FALSE]
    /\ UNCHANGED <<sent, nread, out, pc, why, pend, menu, store, rows, events,
                   nTool, nextId, clock, lastWrite, agent>>

\* commands::update_settings (commands.rs:21-24): the UI saves settings.
update_settings ==
    /\ \E doc \in {DocFull, DocNoSalary} : \E io \in {"ok", "save failed"} :
         LET saved == save_settings(store, SettingsFromValue(doc).ok, io)
         IN  /\ store' = saved.store
             /\ lastWrite' = IF lastWrite = None THEN None
                             ELSE Some([lastWrite[1] EXCEPT !.ui = TRUE])
    /\ <<store', lastWrite'>> # <<store, lastWrite>>
    /\ UNCHANGED <<sent, nread, out, pc, why, pend, clientOpen, menu, rows,
                   events, nTool, nextId, clock, agent>>

(* ------------------------------ the worker ----------------------------- *)

\* The connection of the worker.
W == "c1"

\* The environment a worker may be started in (analysis_agent.rs:16-22).
Envs ==
    { [port |-> Some("4000"), url |-> Some("https://jobs/1"), analysis_id |-> Some("a-1")],
      [port |-> Some("4000"), url |-> Some("https://jobs/2"), analysis_id |-> None],
      [port |-> None, url |-> Some("https://jobs/1"), analysis_id |-> None],
      [port |-> Some("http"), url |-> Some("https://jobs/1"), analysis_id |-> None],
      [port |-> Some("4000"), url |-> None, analysis_id |-> Some("a-1")] }

\* The worker before run_inner has done anything. The field failed is
\* history: the steps whose send returned an error.
AgentAtStart ==
    [pc |-> "start", end |-> "running", err |-> None, next_id |-> 0, nrecv |-> 0,
     url |-> None, analysis_id |-> None, settings |-> None, analysis |-> None,
     failed |-> {}]

\* run_inner returns, or a panic unwinds it: the process exits.
Exited(a, end, err) == [a EXCEPT !.pc = "exited", !.end = end, !.err = err]

\* The exit of the process closes its socket.
ClosesSocket ==
    clientOpen' = IF agent'.pc = "exited" THEN [clientOpen EXCEPT ![W] = FALSE]
                  ELSE clientOpen

\* The variables of the environment are read (analysis_agent.rs:16-22).
AgentStart ==
    /\ agent.pc = "start"
    /\ \E env \in Envs :
         agent' = IF env.port = None
                  THEN Exited(agent, "error", Some(Msg("missing JOB_HUNTER_MCP_PORT", "")))
                  ELSE IF env.port[1] # "4000"
                  THEN Exited(agent, "error", Some(Msg("invalid port", env.port[1])))
                  ELSE IF env.url = None
                  THEN Exited(agent, "error", Some(Msg("missing JOB_HUNTER_TARGET_URL", "")))
                  ELSE [agent EXCEPT !.pc = "connect", !.url = env.url,
                                     !.analysis_id = env.analysis_id]
    /\ ClosesSocket
    /\ UNCHANGED <<sent, nread, out, pc, why, pend, menu, store, rows, events,
                   nTool, nextId, clock, lastWrite>>

\* McpClient::connect (analysis_agent.rs:124-139)
AgentConnect ==
    /\ agent.pc = "connect"
    /\ \E io \in {"ok", "refused"} :
         agent' = IF io = "ok" THEN [agent EXCEPT !.pc = "send", !.next_id = 1]
                  ELSE Exited(agent, "error", Some(Msg("connect mcp", io)))
    /\ ClosesSocket
    /\ UNCHANGED <<sent, nread, out, pc, why, pend, menu, store, rows, events,
                   nTool, nextId, clock, lastWrite>>

\* json!(value) of an Option<String>
OptJson(o) == IF o = None THEN JNull ELSE JStr(o[1])

\* The request of step k of run_inner: method and params
\* (analysis_agent.rs:25-112).
StepRequest(k, a) ==
    CASE k = 1 -> [method |-> "initialize", params |-> EmptyObj]
      [] k = 2 -> [method |-> "call_tool",
                   params |-> JObj([name |-> JStr("get_settings"), arguments |-> EmptyObj])]
      [] k = 3 -> [method |-> "call_tool",
                   params |-> JObj([name |-> JStr("fetch_content"),
                                    arguments |-> JObj([url |-> JStr(a.url[1]),
                                                        maxLength |-> JNum(AgentMaxLength)])])]
      [] k = 4 -> [method |-> "call_tool",
                   params |-> JObj([name |-> JStr("save_job_match"),
                                    arguments |-> JObj(
                                      [analysis_id |-> OptJson(a.analysis_id),
                                       url |-> JStr(a.url[1]),
                                       title |-> OptJson(a.analysis[1].title),
                                       company |-> OptJson(a.analysis[1].company),
                                       location |-> OptJson(a.analysis[1].location),
                                       match_score |-> JNum(a.analysis[1].match_score),
                                       summary |-> JStr(a.analysis[1].summary),
                                       raw_excerpt |-> OptJson(a.analysis[1].raw_excerpt)])])]
      [] k = 5 -> [method |-> "call_tool",
                   params |-> JObj([name |-> JStr("set_query_params"),
                                    arguments |-> JObj([url |-> JStr(a.url[1]),
                                                        analysisId |-> OptJson(a.analysis_id)])])]
      [] k = 6 -> [method |-> "call_tool",
                   params |-> JObj([name |-> JStr("reload_page"), arguments |-> EmptyObj])]

\* The number of requests of a run.
LastStep == 6

\* The second half of McpClient::send (analysis_agent.rs:152-165), given the
\* response line read: the result of the call.
response_result(line) ==
    IF "error" \in DOMAIN line THEN Err(line.error.message)
    ELSE IF "result" \in DOMAIN line THEN Ok(line.result)
    ELSE Ok(JNull)

\* A read_line without the read timeout: it waits for the line.
ReadOutcomes_no_timeout ==
    IF agent.nrecv < Len(out[W]) THEN {"line"}
    ELSE IF pc[W] = "Closed" THEN {"eof"}
    ELSE {}

\* What read_line can bring: the next response line; the end of the stream
\* when the server task has ended, an empty line that is no JSON; the read
\* timeout while the response is not written.
ReadOutcomes ==
    IF agent.nrecv < Len(out[W]) THEN {"line"}
    ELSE IF pc[W] = "Closed" THEN {"eof"}
    ELSE {"timeout"}

send_result(o) ==
    CASE o = "line" -> response_result(out[W][agent.nrecv + 1])
      [] o = "eof" -> Err(Msg("mcp parse", "EOF while parsing a value"))
      [] o = "timeout" -> Err(Msg("mcp read", "timed out"))

\* propagates with the error of the initialize call swallowed.
propagates_but_initialize(k, ret) == ~IsOk(ret) /\ k # 1

\* propagates with the errors of the calls after fetch_content swallowed.
propagates_early_only(k, ret) == ~IsOk(ret) /\ k <= 3

\* propagates with the error of the get_settings call swallowed.
propagates_but_settings(k, ret) == ~IsOk(ret) /\ k # 2

\* The ? behind the send of step k (analysis_agent.rs:25, 30, 40, 97, 108,
\* 112): an error leaves run_inner.
propagates(k, ret) == ~IsOk(ret)

\* The settings the worker goes on with (analysis_agent.rs:31-35): those of
\* the result, the defaults when it has no settings member or one that is no
\* JobSettings.
settings_of(ret) ==
    IF /\ IsOk(ret)
       /\ "settings" \in DOMAIN ret.ok
       /\ IsOk(SettingsFromValue(ret.ok.settings))
    THEN SettingsFromValue(ret.ok.settings).ok
    ELSE DefaultJobSettings

\* A member of the content that is a string, "" otherwise
\* (analysis_agent.rs:42-56).
content_str(ret, k) ==
    IF IsOk(ret) /\ k \in DOMAIN ret.ok THEN ret.ok[k] ELSE <<>>

\* The AnalysisResult of a listing and its score (analysis_agent.rs:60-68).
analysis_scored(extracted, scored) ==
    Ok([title |-> extracted.title,
        company |-> extracted.company,
        location |-> extracted.location,
        summary |-> scored.summary,
        match_score |-> scored.match_score,
        raw_excerpt |-> extracted.raw_excerpt])

\* The listing scored (analysis_agent.rs:59), unless extract_listing
\* panicked.
analysis_from(extracted, settings) ==
    IF ~IsOk(extracted) THEN Panic
    ELSE analysis_scored(extracted.ok, match_listing(extracted.ok, settings))

\* The AnalysisResult of a content (analysis_agent.rs:58-68), or the panic
\* of extract_listing.
analysis_of(ret, settings) ==
    analysis_from(extract_listing(content_str(ret, "html"), content_str(ret, "text"),
                                  content_str(ret, "title")), settings)

\* run_inner behind the send of step k, which returned ret
\* (analysis_agent.rs:25-114): the error leaves it, or it goes on to its next
\* send, or it returns after the last.
run_inner_after(a, k, ret) ==
    LET b == [a EXCEPT !.failed = IF IsOk(ret) THEN @ ELSE @ \cup {k}]
    IN  IF propagates(k, ret) THEN Exited(b, "error", Some(ret.err))
        ELSE IF k = 2
        THEN [b EXCEPT !.pc = "send", !.settings = Some(settings_of(ret))]
        ELSE IF k = 3
        THEN LET analysis == analysis_of(ret, a.settings[1])
             IN  IF analysis = Panic THEN Exited(b, "panic", None)
                 ELSE [b EXCEPT !.pc = "send", !.analysis = Some(analysis.ok)]
        ELSE IF k = LastStep THEN Exited(b, "ok", None)
        ELSE [b EXCEPT !.pc = "send"]

\* The first half of McpClient::send (analysis_agent.rs:142-150): the id is
\* taken, the request line is written. A write to a connection whose server
\* task has ended may fail, and send returns the error.
AgentSend ==
    /\ agent.pc = "send"
    /\ LET id == agent.next_id
           request == StepRequest(id, agent)
           line == Request(JStr(ToString(id)), request.method, request.params)
           taken == [agent EXCEPT !.next_id = id + 1]
       IN  \E io \in IF pc[W] = "Closed" THEN {"written", "broken pipe"} ELSE {"written"} :
              IF io = "written"
              THEN /\ sent' = [sent EXCEPT ![W] = Append(@, line)]
                   /\ agent' = [taken EXCEPT !.pc = "recv"]
              ELSE /\ agent' = run_inner_after(taken, id, Err(Msg("mcp write", io)))
                   /\ UNCHANGED sent
    /\ ClosesSocket
    /\ UNCHANGED <<nread, out, pc, why, pend, menu, store, rows, events, nTool,
                   nextId, clock, lastWrite>>

\* The second half of McpClient::send: the response of the pending request
\* is read, or the read fails (analysis_agent.rs:152-165), and run_inner goes
\* on.
AgentRecv ==
    /\ agent.pc = "recv"
    /\ \E o \in ReadOutcomes :
         agent' = run_inner_after(
                     [agent EXCEPT !.nrecv = IF o = "line" THEN @ + 1 ELSE @],
                     agent.next_id - 1, send_result(o))
    /\ ClosesSocket
    /\ UNCHANGED <<sent, nread, out, pc, why, pend, menu, store, rows, events,
                   nTool, nextId, clock, lastWrite>>

(* --------------------------- specifications ---------------------------- *)

\* No worker runs.
NoAgent == [pc |-> "off"]

\* The state once the host is set up (lib.rs:24-27): ensure_defaults has left
\* a settings value in the store, the record store is whatever earlier runs
\* left (here: empty), the server listens and every connection is accepted.
InitServer ==
    /\ sent = [c \in Conns |-> <<>>]
    /\ nread = [c \in Conns |-> 0]
    /\ out = [c \in Conns |-> <<>>]
    /\ pc = [c \in Conns |-> "AwaitingLine"]
    /\ why = [c \in Conns |-> "running"]
    /\ pend = [c \in Conns |-> None]
    /\ clientOpen = [c \in Conns |-> TRUE]
    /\ store = Some(SettingsToValue(DefaultJobSettings))
    /\ rows = <<>>
    /\ events = <<>>
    /\ nTool = [c \in Conns |-> 0]
    /\ nextId = 0
    /\ clock = 0
    /\ lastWrite = None
    /\ agent = NoAgent

Init ==
    /\ InitServer
    /\ menu = [c \in Conns |-> IF c = "c1" THEN Lines ELSE OtherLines]

Server(c) ==
    \/ HandleLine(c)
    \/ FetchDone(c)
    \/ Insert(c)
    \/ ReadEof(c)

Next ==
    \/ \E c \in Conns : ClientSend(c)
    \/ \E c \in Conns : ClientClose(c)
    \/ \E c \in Conns : Server(c)

Spec == Init /\ [][Next]_vars

\* The settings tools on two connections, beside the UI's update_settings.
OtherSettingsLines ==
    { CallTool(JStr("g"), "get_settings", <<>>),
      CallTool(JStr("s3"), "set_settings", [settings |-> DocExtra]) }

InitSettings ==
    /\ InitServer
    /\ menu = [c \in Conns |-> IF c = "c1" THEN SettingsLines ELSE OtherSettingsLines]

NextSettings ==
    \/ \E c \in Conns : ClientSend(c)
    \/ \E c \in Conns : HandleLine(c)
    \/ update_settings

SpecSettings == InitSettings /\ [][NextSettings]_vars

\* One run of the worker against the host; the settings store holds the
\* defaults or settings the user has saved.
InitAgent ==
    /\ sent = [c \in Conns |-> <<>>]
    /\ nread = [c \in Conns |-> 0]
    /\ out = [c \in Conns |-> <<>>]
    /\ pc = [c \in Conns |-> "AwaitingLine"]
    /\ why = [c \in Conns |-> "running"]
    /\ pend = [c \in Conns |-> None]
    /\ clientOpen = [c \in Conns |-> TRUE]
    /\ menu = [c \in Conns |-> {}]
    /\ store \in {Some(SettingsToValue(DefaultJobSettings)),
                  Some(SettingsToValue(SettingsFromValue(DocFull).ok))}
    /\ rows = <<>>
    /\ events = <<>>
    /\ nTool = [c \in Conns |-> 0]
    /\ nextId = 0
    /\ clock = 0
    /\ lastWrite = None
    /\ agent = AgentAtStart

NextAgent ==
    \/ AgentStart
    \/ AgentConnect
    \/ AgentSend
    \/ AgentRecv
    \/ Server(W)

SpecAgent == InitAgent /\ [][NextAgent]_vars

\* The worker is a process of its own with one thread (main.rs:4-8,
\* analysis_agent.rs:9-13): it takes its next step whenever it has one. The
\* connect and every write end, by completing or by failing
\* (analysis_agent.rs:126-133) ...
AgentStep ==
    \/ AgentStart
    \/ AgentConnect
    \/ AgentSend

\* ... and so does every read, by a line, by the end of the stream or by
\* the read timeout: read_line returns whenever it has an outcome. This is
\* weak fairness of AgentRecv, which is enabled exactly when the worker is
\* in a read that has an outcome (each outcome changes agent).
ReadReturns ==
    \/ []<>~(agent.pc = "recv" /\ ReadOutcomes # {})
    \/ []<><<AgentRecv>>_vars

\* Nothing is assumed of the server.
SpecAgentFair == SpecAgent /\ WF_vars(AgentStep) /\ ReadReturns

\* What the client beside the worker may write: calls that list the records,
\* remove them, and save a record of another analysis.
RunLines ==
    { CallTool(JStr("l"), "list_job_matches", [limit |-> JNum(1)]),
      CallTool(JStr("x"), "clear_job_matches", <<>>),
      CallTool(JStr("m"), "save_job_match",
               [url |-> JStr("https://jobs/3"), match_score |-> JNum(F64(50, 1)),
                summary |-> JStr("by hand"), analysis_id |-> JStr("b-2")]) }

\* The other client.
Other == "c2"

\* It writes one more line.
OtherSend ==
    /\ pc[Other] # "Closed"
    /\ Len(sent[Other]) < MaxOther
    /\ \E line \in menu[Other] : sent' = [sent EXCEPT ![Other] = Append(@, line)]
    /\ UNCHANGED <<nread, out, pc, why, pend, clientOpen, menu, store, rows,
                   events, nTool, nextId, clock, lastWrite, agent>>

\* One run of the worker, started from the UI with an analysis id, beside a
\* client that works on the record store.
InitRun ==
    /\ sent = [c \in Conns |-> <<>>]
    /\ nread = [c \in Conns |-> 0]
    /\ out = [c \in Conns |-> <<>>]
    /\ pc = [c \in Conns |-> "AwaitingLine"]
    /\ why = [c \in Conns |-> "running"]
    /\ pend = [c \in Conns |-> None]
    /\ clientOpen = [c \in Conns |-> TRUE]
    /\ menu = [c \in Conns |-> IF c = Other THEN RunLines ELSE {}]
    /\ store = Some(SettingsToValue(DefaultJobSettings))
    /\ rows = <<>>
    /\ events = <<>>
    /\ nTool = [c \in Conns |-> 0]
    /\ nextId = 0
    /\ clock = 0
    /\ lastWrite = None
    /\ agent = AgentAtStart

NextRun ==
    \/ AgentStart
    \/ AgentConnect
    \/ AgentSend
    \/ AgentRecv
    \/ OtherSend
    \/ \E c \in Conns : Server(c)

SpecRun == InitRun /\ [][NextRun]_vars

\* The host with no connection at work.
HostIdle ==
    /\ sent = [c \in Conns |-> <<>>]
    /\ nread = [c \in Conns |-> 0]
    /\ out = [c \in Conns |-> <<>>]
    /\ pc = [c \in Conns |-> "AwaitingLine"]
    /\ why = [c \in Conns |-> "running"]
    /\ pend = [c \in Conns |-> None]
    /\ clientOpen = [c \in Conns |-> TRUE]
    /\ menu = [c \in Conns |-> {}]
    /\ store = Some(SettingsToValue(DefaultJobSettings))
    /\ rows = <<>>
    /\ events = <<>>
    /\ nTool = [c \in Conns |-> 0]
    /\ nextId = 0
    /\ clock = 0
    /\ lastWrite = None

\* A string of one piece.
Word(w) == <<[c |-> w, n |-> 1]>>
Space == Word("sp")

\* The listings match_listing is applied to.
ScoredTexts ==
    { <<>>,
      Word("a"),
      Word("Rust"),
      Word("Rust") \o Space \o Word("Remote"),
      Word("react") \o Space \o Word("Rust") \o Space \o Word("remote") }

ScoredListings ==
    [title : {None, Some(Word("Backend Engineer")), Some(Word("a"))},
     company : {None, Some(Word("Initech")), Some(Word("a"))},
     location : {None, Some(Word("Remote")), Some(Word("Berlin"))},
     text : ScoredTexts,
     raw_excerpt : {None}]

\* The settings it is applied with.
ScoredSettings ==
    [preferred_titles : {<<>>, <<"", "Backend Engineer">>},
     locations : {<<>>, <<"Remote">>},
     keywords : {<<>>, <<"Rust">>, <<"Rust", "React">>, <<"", "Go", "Tauri">>},
     remote_only : BOOLEAN,
     salary_min : {None},
     salary_max : {None},
     company_blacklist : {<<>>, <<"Initech">>}]

\* match_listing applied to a listing and a settings snapshot.
InitScore ==
    /\ HostIdle
    /\ agent \in [pc : {"match_listing"}, extracted : ScoredListings,
                  settings : ScoredSettings, scored : {None}]

MatchListing ==
    /\ agent.pc = "match_listing"
    /\ agent.scored = None
    /\ agent' = [agent EXCEPT !.scored = Some(match_listing(agent.extracted, agent.settings))]
    /\ UNCHANGED <<sent, nread, out, pc, why, pend, clientOpen, menu, store, rows,
                   events, nTool, nextId, clock, lastWrite>>

SpecScore == InitScore /\ [][MatchListing]_vars

\* The documents, texts and fallback titles extract_listing is applied to.
H1(runs) == Word("<h1>") \o runs \o Word("</h1>")
Title(runs) == Word("<title>") \o runs \o Word("</title>")
AcmeTitle == Word("Senior Backend Engineer") \o Space \o Word("-") \o Space \o Word("Acme Corp")
RemoteUSA == Word("Remote") \o Word(",") \o Space \o Word("USA")
LocationRemoteUSA == Word("Location") \o Word(":") \o Space \o RemoteUSA

ExtractedDocuments ==
    { <<>>,
      H1(AcmeTitle),
      H1(Space) \o H1(Word("Rust")),
      Word(MetaCompany) \o H1(Word("Backend Engineer") \o Space \o Word("|") \o Space \o Word("Initech")),
      Word(MetaBare) \o Word(MetaAuthor) \o Title(Word("Rust") \o Space \o Word("@") \o Space \o Word("Initech")),
      Word(MetaAuthor) \o Word(MetaSiteName) \o Word(MetaCompany) }

ExtractedTitles ==
    { <<>>,
      Space,
      AcmeTitle,
      Word("Backend Engineer"),
      Word("Rust") \o Space \o Word("@") \o Space \o Word("Initech") \o Space \o Word("|") \o Space \o Word("Berlin"),
      Word("a") \o Space \o Word("-") \o Space \o Word("Initech") \o Space \o Word("|") \o Space \o Word("Berlin")
          \o Space \o Word("-") \o <<[c |-> "sp", n |-> 2]>> \o Word("Acme Corp") \o Space,
      Word("Rust") \o Space \o Word("-") \o Space \o Word("-") \o Space \o Word("Berlin"),
      Word("Rust") \o Space \o Word("-") \o Word("Berlin") }

ExtractedTexts ==
    { <<>>,
      LocationRemoteUSA,
      Word("a") \o Space \o LocationRemoteUSA,
      LocationRemoteUSA \o Space \o Word("Apply now"),
      LocationRemoteUSA \o Space \o Word("e2") \o Word("a"),
      Word("Location") \o Word("e2") \o Space \o LocationRemoteUSA \o Word(":") \o Word("a"),
      Word("Location") \o Space \o Word("Berlin") \o Space \o LocationRemoteUSA,
      Word("Location") \o Word(":") \o Word("a") }

\* extract_listing applied to a document, its text and a fallback title.
InitExtract ==
    /\ HostIdle
    /\ agent \in [pc : {"extract_listing"}, html : ExtractedDocuments,
                  text : ExtractedTexts, default_title : ExtractedTitles,
                  extracted : {None}]

ExtractListing ==
    /\ agent.pc = "extract_listing"
    /\ agent.extracted = None
    /\ agent' = [agent EXCEPT !.extracted =
                     Some(extract_listing(agent.html, agent.text, agent.default_title))]
    /\ UNCHANGED <<sent, nread, out, pc, why, pend, clientOpen, menu, store, rows,
                   events, nTool, nextId, clock, lastWrite>>

SpecExtract == InitExtract /\ [][ExtractListing]_vars

\* The bodies fetch_content is applied to and the arguments it is called with.
Run(c, n) == <<[c |-> c, n |-> n]>>

FetchedBodies ==
    UNION {Web(u) : u \in {"https://jobs/1", "https://jobs/2"}} \cup
    { [status |-> 200, html |-> <<>>],
      [status |-> 200, html |-> Title(Word("Rust")) \o H1(AcmeTitle) \o Run("a", 3000)],
      [status |-> 200, html |-> H1(Word("Rust")) \o Run("sp", 3) \o Run("e2", 1200)],
      [status |-> 200, html |-> Run("a", 2) \o Title(Space \o Word("Backend Engineer")) \o Title(Word("a"))],
      [status |-> 200, html |-> Run("e2", 29999) \o Run("a", 5000)],
      [status |-> 200, html |-> Run("a", 59999) \o Run("e2", 2)],
      [status |-> 500, html |-> Run("a", 130000)] }

FetchArguments ==
    {[url |-> JStr("https://jobs/2")]} \cup
    {[url |-> JStr("https://jobs/2"), maxLength |-> JNum(n)] :
        n \in {0, 3, 11, 1999, 2004, DefaultMaxLength, AgentMaxLength}}

\* fetch_content called with the arguments and the exchange ending with the
\* body (mcp.rs:224-276).
InitFetch ==
    /\ HostIdle
    /\ agent \in [pc : {"fetch_content"}, arguments : {JObj(a) : a \in FetchArguments},
                  page : FetchedBodies, ret : {None}]

FetchContent ==
    /\ agent.pc = "fetch_content"
    /\ agent.ret = None
    /\ LET call == handle_tool("fetch_content", agent.arguments, store, rows, "ok")
       IN  agent' = [agent EXCEPT !.ret =
                        Some(fetch_result(call.pend.url, call.pend.max_length, agent.page))]
    /\ UNCHANGED <<sent, nread, out, pc, why, pend, clientOpen, menu, store, rows,
                   events, nTool, nextId, clock, lastWrite>>

SpecFetch == InitFetch /\ [][FetchContent]_vars

\* Two connections, each served by its own task (mcp.rs:30-46): on the first
\* a client calls fetch_content, whose HTTP exchange never ends; on the other
\* a client calls the tools of the stores and fetch_content.
Hung == "c1"

HungLines == { CallTool(JStr("h"), "fetch_content", [url |-> JStr("https://jobs/2")]) }

LiveLines ==
    { CallTool(JStr("m"), "save_job_match",
               [url |-> JStr("https://jobs/3"), match_score |-> JNum(F64(50, 1)),
                summary |-> JStr("by hand")]),
      CallTool(JStr("l"), "list_job_matches", <<>>),
      CallTool(JStr("g"), "get_settings", <<>>),
      CallTool(JStr("s"), "set_settings", [settings |-> DocFull]),
      CallTool(JStr("f"), "fetch_content",
               [url |-> JStr("https://jobs/1"), maxLength |-> JNum(3)]) }

InitLive ==
    /\ InitServer
    /\ menu = [c \in Conns |-> IF c = Hung THEN HungLines ELSE LiveLines]

\* The first client writes its request.
HungSend ==
    /\ sent[Hung] = <<>>
    /\ \E line \in menu[Hung] : sent' = [sent EXCEPT ![Hung] = Append(@, line)]
    /\ UNCHANGED <<nread, out, pc, why, pend, clientOpen, menu, store, rows,
                   events, nTool, nextId, clock, lastWrite, agent>>

\* The task of the other connection takes a step.
ServeOther ==
    \/ HandleLine(Other)
    \/ FetchDone(Other)
    \/ Insert(Other)

NextLive ==
    \/ HungSend
    \/ OtherSend
    \/ HandleLine(Hung)
    \/ ServeOther

\* The runtime goes on running a task that can take a step, and the HTTP
\* exchange of the other connection ends.
SpecLive == InitLive /\ [][NextLive]_vars /\ WF_vars(ServeOther)

\* Two connections whose clients save records at the same time; the first
\* also clears the record store, the second also sends arguments that
\* JobMatchInput does not take (db.rs:28-38).
SaveLines(c) ==
    IF c = Other
    THEN { CallTool(JStr("n"), "save_job_match",
                    [url |-> JStr("https://jobs/4"), match_score |-> JNum(F64(8, 1)),
                     summary |-> JStr("second"), title |-> JStr("Backend Engineer")]),
           CallTool(JStr("u"), "save_job_match",
                    [match_score |-> JNum(F64(8, 1)), summary |-> JStr("no url")]),
           CallTool(JStr("t"), "save_job_match",
                    [url |-> JStr("https://jobs/4"), match_score |-> JNum(F64(8, 1))]),
           CallTool(JStr("r"), "save_job_match",
                    [url |-> JStr("https://jobs/4"), summary |-> JStr("no score")]) }
    ELSE { CallTool(JStr("m"), "save_job_match",
                    [url |-> JStr("https://jobs/3"), match_score |-> JNum(F64(50, 1)),
                     summary |-> JStr("first"), analysis_id |-> JStr("b-2")]),
           CallTool(JStr("x"), "clear_job_matches", <<>>) }

InitSave ==
    /\ InitServer
    /\ menu = [c \in Conns |-> SaveLines(c)]

\* A client writes one more line.
SaverSend(c) ==
    /\ Written(sent, Conns) < MaxSaves
    /\ \E line \in menu[c] : sent' = [sent EXCEPT ![c] = Append(@, line)]
    /\ UNCHANGED <<nread, out, pc, why, pend, clientOpen, menu, store, rows,
                   events, nTool, nextId, clock, lastWrite, agent>>

NextSave ==
    \/ \E c \in Conns : SaverSend(c)
    \/ \E c \in Conns : HandleLine(c)
    \/ \E c \in Conns : Insert(c)

SpecSave == InitSave /\ [][NextSave]_vars

(* ------------------------- the protocol (C1-C7) ------------------------ *)

KnownMethods == {"initialize", "list_tools", "call_tool"}

\* The names of the tool table.
ListedTools == {tool_definitions[i].name : i \in 1..Len(tool_definitions)}

IsJson(line) == "json" \in DOMAIN line
IsError(r) == "error" \in DOMAIN r
MethodOf(line) == request_method(line.json)
ToolOf(line) == tool_name(request_params(line.json))

\* The loop of connection c is through with the k-th line it read: it went on
\* to a later line, it awaits the next one, or it ended on the peer's close.
Through(c, k) ==
    /\ k <= nread[c]
    /\ \/ k < nread[c]
       \/ pc[c] = "AwaitingLine"
       \/ pc[c] = "Closed" /\ why[c] = "peer closed"

\* The task of c has ended while it handled the k-th line, and not because a
\* read or a write on the socket failed.
DiedOn(c, k) ==
    k = nread[c] /\ pc[c] = "Closed" /\ why[c] \notin {"peer closed", "read error", "write error"}

\* Response r is the answer the protocol gives to the request line.
Answers(r, line) ==
    IF ~IsJson(line)
    THEN r.id = JNull /\ IsError(r) /\ r.error.message.what = "invalid json"
    ELSE /\ r.id = request_id(line.json)
         /\ CASE MethodOf(line) = "initialize" ->
                   ~IsError(r) /\ "protocolVersion" \in DOMAIN r.result
              [] MethodOf(line) = "list_tools" ->
                   ~IsError(r) /\ "tools" \in DOMAIN r.result
              [] MethodOf(line) = "call_tool" ->
                   IsError(r) => r.error.message.what # "unknown method"
              [] OTHER ->
                   /\ IsError(r)
                   /\ r.error.message = Msg("unknown method", MethodOf(line))

\* C1 (as claimed): every request line that is JSON with a known method gets
\* exactly one response line on its connection, carrying the request's id
\* (null without one): once the task is through with the line or has ended on
\* it, the response stands at the line's place among the responses, and there
\* are never more responses than lines read.
C1_KnownRequestAnsweredOnce ==
    \A c \in Conns :
       /\ Len(out[c]) <= nread[c]
       /\ \A k \in 1..nread[c] :
             /\ IsJson(sent[c][k])
             /\ MethodOf(sent[c][k]) \in KnownMethods
             /\ Through(c, k) \/ DiedOn(c, k)
             => /\ k <= Len(out[c])
                /\ out[c][k].id = request_id(sent[c][k].json)

\* C2: a connection handles one request at a time and answers in order: at
\* most one line read is without its response, and the k-th response written
\* answers the k-th line read.
C2_ResponsesInRequestOrder ==
    \A c \in Conns :
       /\ Len(out[c]) <= nread[c]
       /\ nread[c] <= Len(out[c]) + 1
       /\ \A k \in 1..Len(out[c]) : Answers(out[c][k], sent[c][k])

\* C2's case: two requests with different ids on one connection (the second
\* may be written before the first is read), both answered.
C2_Witness ==
    \E c \in Conns :
       /\ Len(out[c]) = 2
       /\ out[c][1].id # out[c][2].id
       /\ IsJson(sent[c][1]) /\ IsJson(sent[c][2])

\* The step is the pass of c's loop that reads its next line.
Reads(c) == nread'[c] = nread[c] + 1
NextLine(c) == sent[c][nread[c] + 1]

\* The step wrote response r on c, or the write failed against a peer that
\* had closed, which ended the task.
WroteOrFailed(c, r) ==
    \/ out'[c] = Append(out[c], r) /\ pc'[c] = "AwaitingLine" /\ why'[c] = why[c]
    \/ /\ ~clientOpen[c]
       /\ out'[c] = out[c] /\ pc'[c] = "Closed" /\ why'[c] = "write error"

\* C3: the pass that reads a line that is no JSON writes an error envelope
\* with id null and goes back to awaiting the next line, the connection open
\* (unless that very write fails); ...
C3_StepOnInvalidJson ==
    \A c \in Conns :
       Reads(c) /\ ~IsJson(NextLine(c)) /\ NextLine(c).bad # "not utf-8"
       => /\ WroteOrFailed(c, [id |-> JNull,
                               error |-> [message |-> Msg("invalid json", NextLine(c).bad)]])
          /\ clientOpen[c] => pc'[c] = "AwaitingLine"

\* ... and a later line the loop gets through with is answered in its place.
C3_LaterLinesAnswered ==
    \A c \in Conns : \A k \in 1..nread[c] : \A j \in 1..nread[c] :
       /\ k < j
       /\ ~IsJson(sent[c][k])
       /\ IsJson(sent[c][j])
       /\ Through(c, j)
       => /\ j <= Len(out[c])
          /\ Answers(out[c][j], sent[c][j])
          /\ Answers(out[c][k], sent[c][k])

C4_OnlyTransportEndsConnection ==
    \A c \in Conns :
       pc[c] = "Closed" => why[c] \in {"read error", "peer closed", "write error"}

\* C5: the pass that reads a call_tool request naming no tool of the table
\* answers with an error whose message carries that name, and leaves the
\* settings store, the record store and the notifications as they were.
C5_Step ==
    \A c \in Conns :
       /\ Reads(c)
       /\ IsJson(NextLine(c))
       /\ MethodOf(NextLine(c)) = "call_tool"
       /\ ToolOf(NextLine(c)) \notin ListedTools
       => /\ WroteOrFailed(c, [id |-> request_id(NextLine(c).json),
                               error |-> [message |->
                                   Msg("unknown tool", ToolOf(NextLine(c)))]])
          /\ store' = store /\ rows' = rows /\ events' = events

C5_UnknownToolIsAnError == [][C5_Step]_vars

\* C5's case: the call of delete_all answered with the error naming it.
C5_Witness ==
    \E c \in Conns : \E k \in 1..Len(out[c]) :
       /\ IsJson(sent[c][k]) /\ MethodOf(sent[c][k]) = "call_tool"
       /\ ToolOf(sent[c][k]) = "delete_all"
       /\ IsError(out[c][k])
       /\ out[c][k].error.message.detail = "delete_all"

\* C6: the pass that reads a JSON line with any other method (none, one that
\* is no string, a value that is no object) answers with an error envelope
\* carrying the request's id, calls no tool handler and changes no store.
C6_Step ==
    \A c \in Conns :
       /\ Reads(c)
       /\ IsJson(NextLine(c))
       /\ as_str(get(NextLine(c).json, "method")) \notin {Some(m) : m \in KnownMethods}
       => /\ LET given == as_str(get(NextLine(c).json, "method"))
                  m == IF given = None THEN "" ELSE given[1]
              IN  WroteOrFailed(c, [id |-> unwrap_or(get(NextLine(c).json, "id"), JNull),
                                    error |-> [message |-> Msg("unknown method", m)]])
          /\ nTool' = nTool
          /\ store' = store /\ rows' = rows /\ events' = events /\ pend' = pend

C6_UnknownMethodIsAnError == [][C6_Step]_vars

\* C6's case: a request without a method, and with an id, answered.
C6_Witness ==
    \E c \in Conns : \E k \in 1..Len(out[c]) :
       /\ IsJson(sent[c][k])
       /\ get(sent[c][k].json, "method") = None
       /\ get(sent[c][k].json, "id") # None
       /\ IsError(out[c][k])
       /\ out[c][k].id = sent[c][k].json.obj.id
       /\ nTool[c] = 0

\* The names a client may put in a call: those of the table and others.
ProbedNames == ListedTools \cup {"", "delete_all", "initialize", "list_tools", "call_tool"}

\* handle_tool has an arm for the name: it does not answer "unknown tool".
Dispatched(name) ==
    LET eff == handle_tool(name, EmptyObj, store, rows, "ok")
    IN  ~(eff.await = "none" /\ ~IsOk(eff.ret) /\ eff.ret.err.what = "unknown tool")

\* C7: every response to list_tools carries the same table of 8 definitions
\* with 8 different names, and the names of the table are the names
\* handle_tool has an arm for: a call is answered "unknown tool" exactly when
\* its name is not in the table.
C7_ListedIsCallable ==
    /\ \A c \in Conns : \A k \in 1..Len(out[c]) :
          /\ IsJson(sent[c][k]) /\ MethodOf(sent[c][k]) = "list_tools"
             => /\ Len(out[c][k].result.tools) = 8
                /\ Cardinality({out[c][k].result.tools[i].name : i \in 1..8}) = 8
                /\ \A i \in 1..8 : Dispatched(out[c][k].result.tools[i].name)
                /\ \A n \in ProbedNames :
                      Dispatched(n) =>
                         \E i \in 1..8 : out[c][k].result.tools[i].name = n
          /\ IsJson(sent[c][k]) /\ MethodOf(sent[c][k]) = "call_tool"
             => ((IsError(out[c][k]) /\ out[c][k].error.message.what = "unknown tool")
                   <=> ToolOf(sent[c][k]) \notin
                         {"set_query_params", "fetch_content", "reload_page",
                          "get_settings", "set_settings", "save_job_match",
                          "list_job_matches", "clear_job_matches"})
    /\ \A c \in Conns : \A d \in Conns : \A k \in 1..Len(out[c]) : \A j \in 1..Len(out[d]) :
          /\ IsJson(sent[c][k]) /\ MethodOf(sent[c][k]) = "list_tools"
          /\ IsJson(sent[d][j]) /\ MethodOf(sent[d][j]) = "list_tools"
          => out[c][k].result = out[d][j].result

\* C7's case: list_tools answered, and a call of a listed tool answered with
\* a result on the same connection.
C7_Witness ==
    \E c \in Conns :
       /\ Len(out[c]) = 2
       /\ IsJson(sent[c][1]) /\ MethodOf(sent[c][1]) = "list_tools"
       /\ ~IsError(out[c][1])
       /\ IsJson(sent[c][2]) /\ MethodOf(sent[c][2]) = "call_tool"
       /\ \E i \in 1..Len(out[c][1].result.tools) :
             out[c][1].result.tools[i].name = ToolOf(sent[c][2])
       /\ ~IsError(out[c][2])

(* --------------------------- settings (C8) ----------------------------- *)

\* The step is the pass of c's loop that reads a get_settings call and
\* answers it with a result.
AnswersGetSettings(c) ==
    /\ Reads(c)
    /\ IsJson(NextLine(c))
    /\ MethodOf(NextLine(c)) = "call_tool"
    /\ ToolOf(NextLine(c)) = "get_settings"
    /\ Len(out'[c]) = Len(out[c]) + 1
    /\ ~IsError(out'[c][Len(out'[c])])

Returned(c) == out'[c][Len(out'[c])].result.settings

\* The last set_settings call that reached the store succeeded: no other
\* set_settings has set the store since.
AfterSetSettings ==
    /\ lastWrite # None
    /\ IsOk(lastWrite[1].ret)

\* Nor has the UI.
NoWriteSince == ~lastWrite[1].ui

\* S as JobSettings reads it: the seven members of the settings, a salary
\* bound that S does not carry written as null, every other member dropped.
AsJobSettings(S) ==
    JObj([k \in SettingsKeys |-> IF k \in DOMAIN S.obj THEN S.obj[k] ELSE None])

\* C8 (as claimed): a get_settings answered after a successful
\* set_settings(S), with no other set_settings in between, returns S, and
\* what set_settings returned.
C8_Original_Step ==
    \A c \in Conns :
       AnswersGetSettings(c) /\ AfterSetSettings
       => /\ Returned(c) = lastWrite[1].arg
          /\ Returned(c) = lastWrite[1].ret.ok.settings

C8_Original == [][C8_Original_Step]_vars

\* C8 (amended): a get_settings answered after a successful set_settings(S),
\* with no write of the settings store in between (by a set_settings or by
\* the UI's update_settings), returns what set_settings returned, which is S
\* as JobSettings reads it: S itself when S carries exactly the seven members.
C8_Step ==
    \A c \in Conns :
       AnswersGetSettings(c) /\ AfterSetSettings /\ NoWriteSince
       => /\ Returned(c) = AsJobSettings(lastWrite[1].arg)
          /\ Returned(c) = lastWrite[1].ret.ok.settings
          /\ DOMAIN lastWrite[1].arg.obj = SettingsKeys => Returned(c) = lastWrite[1].arg

C8_SettingsRoundTrip == [][C8_Step]_vars

\* C8's case: set_settings of a document without the salary members, then
\* get_settings on the same connection, both answered with the same snapshot
\* and no other write of the settings since.
C8_Witness ==
    \E c \in Conns :
       /\ Len(out[c]) = 2
       /\ ToolOf(sent[c][1]) = "set_settings"
       /\ ToolOf(sent[c][2]) = "get_settings"
       /\ ~IsError(out[c][1]) /\ ~IsError(out[c][2])
       /\ AfterSetSettings /\ NoWriteSince /\ lastWrite[1].by = c
       /\ lastWrite[1].arg = DocNoSalary
       /\ out[c][2].result.settings = out[c][1].result.settings
       /\ out[c][2].result.settings # lastWrite[1].arg

(* ------------------------- the worker (C9, C10) ------------------------ *)

\* The worker has read the response of its k-th request, the call of the
\* tool, and the response is an error envelope.
ReadErrorOf(k, tool) ==
    /\ agent.nrecv >= k
    /\ ToolOf(sent[W][k]) = tool
    /\ IsError(out[W][k])

\* The worker has left run_inner with the error of its k-th request, which
\* is the last request it has sent.
AbortedOn(k) ==
    /\ agent.pc = "exited"
    /\ agent.end = "error"
    /\ agent.err = Some(out[W][k].error.message)
    /\ Len(sent[W]) = k

UnreadableSettings ==
    { [ok |-> TRUE],
      [settings |-> DocMissing],
      [settings |-> JNull],
      [settings |-> JStr("none")] }

\* The worker has gone on from get_settings with the settings s.
WentOnWith(s) ==
    /\ agent.settings = Some(s)
    /\ agent.next_id >= 3
    /\ agent.pc = "exited" => Len(sent[W]) >= 3

ConnectFailed ==
    /\ agent.pc = "exited"
    /\ agent.err # None
    /\ agent.err[1].what = "connect mcp"

\* The initialize round trip has failed: the first send returned an error.
InitializeFailed == 1 \in agent.failed

\* C11: after a failed connect the worker has sent nothing, after a failed
\* initialize round trip nothing but initialize; in both cases it has exited
\* with the error and the record store holds no record of the run ...
C11_State ==
    /\ ConnectFailed => Len(sent[W]) = 0 /\ agent.end = "error" /\ rows = <<>>
    /\ InitializeFailed
       => /\ agent.pc = "exited" /\ agent.end = "error"
          /\ Len(sent[W]) <= 1
          /\ \A k \in 1..Len(sent[W]) : MethodOf(sent[W][k]) = "initialize"
          /\ rows = <<>>

\* ... and once exited the worker does nothing more: no request, no retry.
C11_Step ==
    agent.pc = "exited" => agent' = agent /\ sent' = sent

C11_EarlyFailureAborts == [](C11_State) /\ [][C11_Step]_vars

\* C11's case: the read of the initialize response timed out; the worker has
\* exited, the server has answered initialize since and has seen the close.
C11_Witness ==
    /\ InitializeFailed
    /\ agent.err = Some(Msg("mcp read", "timed out"))
    /\ Len(sent[W]) = 1 /\ Len(out[W]) = 1
    /\ pc[W] = "Closed"
    /\ rows = <<>>

\* The save_job_match requests among the lines written on c.
SaveRequests(c) ==
    {k \in 1..Len(sent[c]) :
        IsJson(sent[c][k]) /\ MethodOf(sent[c][k]) = "call_tool"
        /\ ToolOf(sent[c][k]) = "save_job_match"}

\* The records created so far that carry the analysis id: by the
\* notifications of their creation.
CreatedWith(analysis_id) ==
    {i \in 1..Len(events) :
        /\ events[i].name = "analysis:completed"
        /\ events[i].payload.match.obj.analysis_id = JStr(analysis_id)}

\* The step is the one in which the save_job_match call of c returns its
\* result.
SaveSucceeds(c) ==
    /\ pc[c] = "Inserting"
    /\ Len(out'[c]) = Len(out[c]) + 1
    /\ ~IsError(out'[c][Len(out'[c])])

\* C12: a worker run sends save_job_match at most once, and a run that has
\* completed all its steps has created exactly one record with its analysis
\* id ...
C12_State ==
    /\ Cardinality(SaveRequests(W)) <= 1
    /\ agent.end = "ok" /\ agent.analysis_id # None
       => Cardinality(CreatedWith(agent.analysis_id[1])) = 1

\* ... every save_job_match call that succeeds adds exactly one record, the
\* one it returns, and every step leaves the records stored as they are, or
\* removes them all.
C12_Step ==
    /\ \A c \in Conns :
          SaveSucceeds(c)
          => /\ Len(rows') = Len(rows) + 1
             /\ JobMatchToValue(rows'[Len(rows')]) = out'[c][Len(out'[c])].result.match
    /\ \/ rows' = <<>>
       \/ /\ Len(rows') \in {Len(rows), Len(rows) + 1}
          /\ \A i \in 1..Len(rows) : rows'[i] = rows[i]

C12_OneRecordPerRun == [](C12_State) /\ [][C12_Step]_vars

\* C12's case: the run has completed, its record is stored beside a record
\* the other client saved before it.
C12_Witness ==
    /\ agent.end = "ok" /\ agent.analysis_id = Some("a-1")
    /\ Len(rows) = 2
    /\ rows[1].analysis_id = Some("b-2")
    /\ rows[2].analysis_id = Some("a-1")
    /\ Cardinality(CreatedWith("a-1")) = 1

(* --------------------------- scoring (C13, C14) ------------------------ *)

\* The score match_listing has returned.
Score == agent.scored[1].match_score

\* C13: whatever the listing and the settings, the score match_listing
\* returns lies between 0 and 100, both included.
C13_ScoreInRange ==
    agent.scored # None => 0 <= Score.n /\ Score.n <= 100 * Score.d

\* C13's case: a listing whose sum of base and bonuses is over 100 (all the
\* keywords, the title, the location and remote) scored 100.
C13_Witness ==
    /\ agent.scored # None
    /\ agent.settings.keywords = <<"Rust">> /\ agent.settings.remote_only
    /\ agent.settings.preferred_titles # <<>> /\ agent.settings.locations # <<>>
    /\ agent.extracted.text = Word("Rust") \o Space \o Word("Remote")
    /\ agent.extracted.title = Some(Word("Backend Engineer"))
    /\ agent.extracted.location = Some(Word("Remote"))
    /\ agent.extracted.company = None
    /\ Score = F64(100, 1)

\* The word occurs in the string, whatever the case of the two.
Occurs(word, runs) ==
    \E i \in 1..Len(runs) : to_lowercase(runs[i].c) = to_lowercase(word)

\* One of the words that are not empty occurs in the string, if there is one.
Signal(words, o) ==
    o # None /\ \E i \in 1..Len(words) : words[i] # "" /\ Occurs(words[i], o[1])

\* The score the formula gives, times the number of keywords (1 when there
\* is none).
FormulaTimes(e, st) ==
    LET len == Len(st.keywords)
        d == IF len = 0 THEN 1 ELSE len
        found == {i \in 1..len : st.keywords[i] = "" \/ Occurs(st.keywords[i], e.text)}
        base == IF len = 0 THEN 50 ELSE 100 * Cardinality(found)
        sum == base
               + d * (IF Signal(st.preferred_titles, e.title) THEN 10 ELSE 0)
               + d * (IF Signal(st.locations, e.location) THEN 6 ELSE 0)
               + d * (IF st.remote_only /\ Occurs("remote", e.text) THEN 8 ELSE 0)
               - d * (IF Signal(st.company_blacklist, e.company) THEN 15 ELSE 0)
    IN  [times |-> d,
         value |-> IF sum < 0 THEN 0 ELSE IF sum > 100 * d THEN 100 * d ELSE sum]

\* C14: the score is the formula's: the base, 50 without keywords and the
\* percentage of the keywords that occur in the text otherwise, plus 10, 6, 8
\* and minus 15 for the title, the location, remote and the blacklist, each
\* on its own, clamped to 0..100; 50 without keywords and signals; 58 for
\* the keywords Rust and React, a text with Rust and remote, and remote_only.
C14_ScoreFormula ==
    agent.scored # None
    => LET e == agent.extracted
           st == agent.settings
           f == FormulaTimes(e, st)
       IN  /\ Score.n * f.times = f.value * Score.d
           /\ /\ st.keywords = <<>>
              /\ ~Signal(st.preferred_titles, e.title)
              /\ ~Signal(st.locations, e.location)
              /\ ~Signal(st.company_blacklist, e.company)
              /\ ~(st.remote_only /\ Occurs("remote", e.text))
              => Score = F64(50, 1)
           /\ /\ st.keywords = <<"Rust", "React">>
              /\ e.text = Word("Rust") \o Space \o Word("Remote")
              /\ st.remote_only
              /\ ~Signal(st.preferred_titles, e.title)
              /\ ~Signal(st.locations, e.location)
              /\ ~Signal(st.company_blacklist, e.company)
              => Score = F64(58, 1)

\* C14's case: the keywords Rust and React, a text with Rust and remote,
\* remote_only set, a title that is none of the preferred: scored 58.
C14_Witness ==
    /\ agent.scored # None
    /\ agent.settings.keywords = <<"Rust", "React">>
    /\ agent.settings.remote_only
    /\ agent.settings.preferred_titles = <<"", "Backend Engineer">>
    /\ agent.extracted.text = Word("Rust") \o Space \o Word("Remote")
    /\ agent.extracted.title = Some(Word("a"))
    /\ agent.extracted.location = None
    /\ agent.extracted.company = None
    /\ Score = F64(58, 1)

----------------------------------------------------------------------------
\* extraction (C15, C16)

Extracted == agent.extracted[1].ok
IsExtracted == agent.pc = "extract_listing" /\ agent.extracted # None /\ IsOk(agent.extracted[1])

\* The separator occurs in the title at place i.
SeparatorAt(title, sep, i) ==
    /\ i \in 2..(Len(title) - 1)
    /\ title[i] = [c |-> sep, n |-> 1]
    /\ title[i - 1].c = "sp"
    /\ title[i + 1].c = "sp"

SeparatorOccurs(title, sep) == \E i \in 1..Len(title) : SeparatorAt(title, sep, i)

\* company is the trimmed trailing segment of title for sep: what follows an
\* occurrence of sep, trimmed, with no occurrence of sep in it.
TrailingSegment(title, sep, company) ==
    \E i \in 1..Len(title) :
        /\ SeparatorAt(title, sep, i)
        /\ company = Trim(SubSeq(title, i + 1, Len(title)))
        /\ ~SeparatorOccurs(company, sep)

NoMetaCompany ==
    \A i \in 1..Len(agent.html) :
        agent.html[i].c \notin {MetaCompany, MetaSiteName}

\* C15: when no meta element gives a company, the company is the trimmed
\* trailing segment of the resolved title for the first of " - ", " | ",
\* " @ " that occurs in it, and absent when the title is absent or none
\* occurs; the title "Senior Backend Engineer - Acme Corp" is kept whole and
\* gives the company "Acme Corp".
C15_CompanyFromTitle ==
    (IsExtracted /\ NoMetaCompany) =>
        LET title == Extracted.title
            company == Extracted.company
        IN  /\ title = None => company = None
            /\ title # None =>
                  LET t == title[1]
                  IN  IF SeparatorOccurs(t, "-")
                      THEN company # None /\ TrailingSegment(t, "-", company[1])
                      ELSE IF SeparatorOccurs(t, "|")
                      THEN company # None /\ TrailingSegment(t, "|", company[1])
                      ELSE IF SeparatorOccurs(t, "@")
                      THEN company # None /\ TrailingSegment(t, "@", company[1])
                      ELSE company = None
            /\ title = Some(AcmeTitle) => company = Some(Word("Acme Corp"))

C15_Witness ==
    /\ IsExtracted
    /\ NoMetaCompany
    /\ agent.html = <<>>
    /\ agent.default_title = AcmeTitle
    /\ Extracted.title = Some(AcmeTitle)
    /\ Extracted.company = Some(Word("Acme Corp"))

\* The text holds "Location: Remote, USA" from place i on.
LocationRemoteUSAAt(text, i) ==
    /\ i + Len(LocationRemoteUSA) - 1 <= Len(text)
    /\ SubSeq(text, i, i + Len(LocationRemoteUSA) - 1) = LocationRemoteUSA

\* C16: for a text that holds "Location: Remote, USA" with no match of the
\* pattern before it, extract_location gives exactly "Remote, USA".
C16_LocationRemoteUSA ==
    IsExtracted =>
        \A i \in 1..Len(agent.text) :
            (/\ LocationRemoteUSAAt(agent.text, i)
             /\ \A j \in 1..(i - 1) : CaptureAt(agent.text, j) = None)
            => Extracted.location = Some(RemoteUSA)

----------------------------------------------------------------------------
\* the fields of fetch_content (C17)

Fetched == agent.ret[1].ok
IsFetched == agent.pc = "fetch_content" /\ agent.ret # None /\ IsOk(agent.ret[1])

\* The maxLength of the call, 60000 when the argument is absent.
MaxLengthOf(arguments) ==
    IF "maxLength" \in DOMAIN arguments.obj THEN arguments.obj.maxLength.num ELSE 60000

HasTitleElement(html) == \E i \in 1..Len(html) : html[i].c = "<title>"

\* C17: a successful fetch_content returns an html field of at most
\* maxLength characters (60000 when the argument is absent), a text field of
\* at most 2000 characters, and the empty title when the document has no
\* title element.
C17_FetchedLengths ==
    IsFetched =>
        /\ CharLen(Fetched.html) <= MaxLengthOf(agent.arguments)
        /\ CharLen(Fetched.text) <= 2000
        /\ ~HasTitleElement(Fetched.html) => Fetched.title = <<>>

C17_Witness ==
    /\ IsFetched
    /\ "maxLength" \notin DOMAIN agent.arguments.obj
    /\ ByteLen(agent.page.html) > 60000
    /\ CharLen(Fetched.html) = 60000
    /\ CharLen(Fetched.text) = 2000
    /\ ~HasTitleElement(agent.page.html)
    /\ Fetched.title = <<>>

----------------------------------------------------------------------------
\* the list of the records (C18)

\* The step is the one in which a list_job_matches call of c returns its
\* result.
ListAnswered(c) ==
    /\ pc[c] = "AwaitingLine"
    /\ nread'[c] = nread[c] + 1
    /\ IsJson(sent[c][nread'[c]])
    /\ MethodOf(sent[c][nread'[c]]) = "call_tool"
    /\ ToolOf(sent[c][nread'[c]]) = "list_job_matches"
    /\ Len(out'[c]) = Len(out[c]) + 1
    /\ ~IsError(out'[c][Len(out'[c])])

\* The limit of the call, 50 when the argument is absent.
LimitOf(line) ==
    LET arguments == tool_arguments(request_params(line.json))
    IN  IF "obj" \in DOMAIN arguments /\ "limit" \in DOMAIN arguments.obj
        THEN arguments.obj.limit.num ELSE 50

\* C18: list_job_matches(limit) returns min(limit, number of records stored)
\* records, in non-increasing order of their creation timestamps, and every
\* record it leaves out is no newer than every record it returns.
C18_Step ==
    \A c \in Conns :
        ListAnswered(c) =>
            LET matches == out'[c][Len(out'[c])].result.matches
                limit == LimitOf(sent[c][nread'[c]])
                returned == {matches[i].obj.id : i \in 1..Len(matches)}
            IN  /\ Len(matches) = IF limit < Len(rows) THEN limit ELSE Len(rows)
                /\ \A i, j \in 1..Len(matches) :
                       i < j => matches[i].obj.created_at.num >= matches[j].obj.created_at.num
                /\ \A k \in 1..Len(rows) : \A i \in 1..Len(matches) :
                       JStr(rows[k].id) \notin returned
                       => rows[k].created_at <= matches[i].obj.created_at.num

C18_ListNewestFirst == [][C18_Step]_vars

----------------------------------------------------------------------------
\* the worker's requests and responses (C19, C20)

\* The requests of a run, in their order: the method and, for call_tool, the
\* tool.
RunOrder ==
    << <<"initialize", "">>,
       <<"call_tool", "get_settings">>,
       <<"call_tool", "fetch_content">>,
       <<"call_tool", "save_job_match">>,
       <<"call_tool", "set_query_params">>,
       <<"call_tool", "reload_page">> >>

\* C19: the requests of a run are a prefix of initialize, get_settings,
\* fetch_content, save_job_match, set_query_params, reload_page, and the n-th
\* of them carries the id n ...
C19_State ==
    /\ Len(sent[W]) <= Len(RunOrder)
    /\ \A n \in 1..Len(sent[W]) :
          /\ IsJson(sent[W][n])
          /\ request_id(sent[W][n].json) = JStr(ToString(n))
          /\ MethodOf(sent[W][n]) = RunOrder[n][1]
          /\ ToolOf(sent[W][n]) = RunOrder[n][2]

\* ... and a request is sent only when the response of every request before
\* it has been read.
C19_Step ==
    Len(sent'[W]) > Len(sent[W])
    => /\ Len(sent'[W]) = Len(sent[W]) + 1
       /\ agent.nrecv = Len(sent[W])
       /\ Len(out[W]) >= Len(sent[W])

C19_RequestsInOrder == [](C19_State) /\ [][C19_Step]_vars

\* C19's case: a run that has sent all six requests and read all six
\* responses.
C19_Witness ==
    /\ agent.end = "ok"
    /\ Len(sent[W]) = 6
    /\ agent.nrecv = 6

\* The step is one in which McpClient::send takes a response envelope.
TakesResponse == agent.pc = "recv" /\ agent'.nrecv = agent.nrecv + 1

\* C20: the envelope McpClient::send takes its result or error from carries
\* the id of the request that this send wrote, which is the last request on
\* the connection.
C20_Step ==
    TakesResponse =>
        LET response == out[W][agent'.nrecv]
            request == sent[W][Len(sent[W])].json
        IN  /\ agent'.nrecv = Len(sent[W])
            /\ response.id = request_id(request)
            /\ response.id = JStr(ToString(agent.next_id - 1))

C20_ResponseMatchesRequest == [][C20_Step]_vars

\* C20's case: the worker has taken the error of its save_job_match call
\* from the envelope with the id 4.
C20_Witness ==
    /\ agent.pc = "exited"
    /\ agent.nrecv = 4
    /\ 4 \in agent.failed
    /\ IsError(out[W][4])
    /\ out[W][4].id = JStr("4")

----------------------------------------------------------------------------
\* connections beside a handler that never returns (C21)

\* The first connection is suspended in fetch_content.
Suspended == pc[Hung] = "Fetching"

\* The k-th request of the other connection is answered.
Answered(k) == Len(out[Other]) >= k

\* C21: while the first connection is suspended in a handler that never
\* returns, every request sent on the other connection is eventually
\* answered.
C21_OtherConnectionAnswered ==
    \A k \in 1..MaxOther : (Suspended /\ Len(sent[Other]) >= k) ~> Answered(k)

----------------------------------------------------------------------------
\* saves at the same time (C22)

\* The save_job_match calls of c that returned a record so far.
SavedBy(c) ==
    {k \in 1..Len(out[c]) :
        /\ k \in SaveRequests(c)
        /\ ~IsError(out[c][k])}

\* No clear_job_matches call has been handled.
NeverCleared ==
    \A c \in Conns : \A k \in 1..nread[c] :
        ~(IsJson(sent[c][k]) /\ MethodOf(sent[c][k]) = "call_tool"
          /\ ToolOf(sent[c][k]) = "clear_job_matches")

\* C22: however the save_job_match calls of the connections interleave, the
\* stored records have pairwise distinct identities, each is the record
\* returned to its caller, and as long as the store has not been cleared it
\* holds as many records as calls have succeeded ...
C22_State ==
    /\ \A i, j \in 1..Len(rows) : i # j => rows[i].id # rows[j].id
    /\ \A i \in 1..Len(rows) : \E c \in Conns : \E k \in SavedBy(c) :
          out[c][k].result.match = JobMatchToValue(rows[i])
    /\ NeverCleared => Len(rows) = Cardinality(SavedBy("c1")) + Cardinality(SavedBy("c2"))

\* ... every call that succeeds persists exactly one record, with an
\* identity that no stored record has, a clear leaves none, and no other
\* step changes the store.
C22_Step ==
    \/ /\ \E c \in Conns : SaveSucceeds(c)
       /\ Len(rows') = Len(rows) + 1
       /\ \A i \in 1..Len(rows) : rows'[i] = rows[i] /\ rows[i].id # rows'[Len(rows')].id
    \/ /\ \A c \in Conns : ~SaveSucceeds(c)
       /\ rows' = rows \/ rows' = <<>>

C22_ConcurrentSaves == [](C22_State) /\ [][C22_Step]_vars

\* C22's case: the first connection drew its identity first and the second
\* stored its record first; both calls have returned.
C22_Witness ==
    /\ Len(rows) = 2
    /\ rows[1].id = 2 /\ rows[2].id = 1
    /\ SavedBy("c1") # {} /\ SavedBy("c2") # {}

----------------------------------------------------------------------------
\* the analysis-completed notification (C23)

\* e announces the record m, given as a JSON value.
Announces(e, m) ==
    /\ e.name = "analysis:completed"
    /\ "match" \in DOMAIN e.payload
    /\ e.payload.match = m

\* C23: there are as many analysis-completed notifications as
\* save_job_match calls have succeeded ...
C23_State ==
    /\ Len(events) = Cardinality(SavedBy("c1")) + Cardinality(SavedBy("c2"))
    /\ \A i \in 1..Len(events) : \E c \in Conns : \E k \in SavedBy(c) :
          Announces(events[i], out[c][k].result.match)

\* ... a call that succeeds emits exactly one, which carries the record that
\* the same step has stored and returned, and no other step emits one.
C23_Step ==
    \/ /\ \E c \in Conns :
            /\ SaveSucceeds(c)
            /\ Announces(events'[Len(events')], out'[c][Len(out'[c])].result.match)
       /\ Len(events') = Len(events) + 1
       /\ \A i \in 1..Len(events) : events'[i] = events[i]
       /\ Len(rows') = Len(rows) + 1
       /\ Announces(events'[Len(events')], JobMatchToValue(rows'[Len(rows')]))
    \/ /\ \A c \in Conns : ~SaveSucceeds(c)
       /\ events' = events

C23_CompletedAfterPersisted == [](C23_State) /\ [][C23_Step]_vars

\* C23's case: two calls have succeeded, the store has been cleared since,
\* and the two notifications are there.
C23_Witness ==
    /\ Len(events) = 2
    /\ events[1] # events[2]
    /\ rows = <<>>

----------------------------------------------------------------------------
\* save_job_match that fails (C24)

SaveArguments(line) == line.json.obj.params.obj.arguments.obj

\* The k-th line of c is a save_job_match call without url, summary or
\* match_score.
LacksRequired(c, k) ==
    /\ k \in SaveRequests(c)
    /\ ~(RequiredMatchKeys \subseteq DOMAIN SaveArguments(sent[c][k]))

\* c answers the call it is handling with an error envelope.
AnswersError(c) ==
    /\ Len(out'[c]) = Len(out[c]) + 1
    /\ IsError(out'[c][Len(out'[c])])

\* C24: a save_job_match call without url, summary or match_score has an
\* error envelope for its answer ...
C24_State ==
    \A c \in Conns : \A k \in 1..Len(out[c]) :
        LacksRequired(c, k) => IsError(out[c][k])

\* ... the step that takes such a call answers it with an error envelope
\* and never reaches the insert, an insert that ends either succeeds or
\* answers an error envelope, and the step that answers a save_job_match call
\* with an error envelope leaves the record store and the notifications
\* alone.
C24_Step ==
    \A c \in Conns :
        /\ (nread'[c] = nread[c] + 1 /\ LacksRequired(c, nread'[c]))
              => AnswersError(c) /\ pc'[c] # "Inserting"
        /\ (pc[c] = "Inserting" /\ pc'[c] # "Inserting")
              => SaveSucceeds(c) \/ AnswersError(c)
        /\ ((pc[c] = "Inserting" \/ nread'[c] \in SaveRequests(c)) /\ AnswersError(c))
              => rows' = rows /\ events' = events

C24_FailedSaveChangesNothing == [](C24_State) /\ [][C24_Step]_vars

\* C24's case: with a record stored, a call without a member and an insert
\* that failed have both been answered with error envelopes.
C24_Witness ==
    /\ Len(rows) = 1
    /\ \E k \in 1..Len(out[Other]) : LacksRequired(Other, k) /\ IsError(out[Other][k])
    /\ \E c \in Conns : \E k \in 1..Len(out[c]) :
          /\ k \in SaveRequests(c) /\ ~LacksRequired(c, k)
          /\ IsError(out[c][k])

----------------------------------------------------------------------------
\* the title of a listing (C25)

\* The places of the h1 elements whose text is not blank.
NonBlankH1(document) ==
    {i \in Select(document, "<h1>") : Trim(ElementText(document, i)) # <<>>}

\* C25: the title of an extracted listing is the text of the first h1 of
\* the document whose text is not blank; when there is none it is the
\* fallback title, and it is absent when the fallback title is blank too.
C25_TitleFirstNonBlankH1 ==
    IsExtracted =>
        IF NonBlankH1(agent.html) # {}
        THEN Extracted.title =
                Some(ElementText(agent.html, CHOOSE i \in NonBlankH1(agent.html) :
                                                \A j \in NonBlankH1(agent.html) : i <= j))
        ELSE IF Trim(agent.default_title) # <<>>
        THEN Extracted.title = Some(agent.default_title)
        ELSE Extracted.title = None

----------------------------------------------------------------------------
\* the worker behind fetch_content (C26)

\* The worker has read the response of its fetch_content call.
FetchRead == agent.pc # "off" /\ agent.nrecv >= 3

\* The score the save_job_match request of the worker carries.
SavedScore == SaveArguments(sent[W][4]).match_score.num

\* C26: a worker whose fetch_content call returned an error envelope has
\* exited with the error, has sent nothing after fetch_content, and no record
\* and no notification of the run exist; a worker whose fetch_content call
\* returned a content, whatever its HTTP status, has scored it and goes on
\* to send save_job_match with the score.
C26_FetchErrorOrSaved ==
    FetchRead =>
        IF IsError(out[W][3])
        THEN /\ agent.pc = "exited" /\ agent.end = "error"
             /\ Len(sent[W]) = 3
             /\ rows = <<>> /\ events = <<>>
        ELSE /\ agent.analysis # None
             /\ agent.analysis[1].match_score =
                  match_listing([title |-> agent.analysis[1].title,
                                 company |-> agent.analysis[1].company,
                                 location |-> agent.analysis[1].location,
                                 text |-> out[W][3].result.text],
                                agent.settings[1]).match_score
             /\ \/ agent.pc = "send" /\ agent.next_id = 4
                \/ /\ Len(sent[W]) >= 4
                   /\ SaveRequests(W) = {4}
                   /\ SavedScore = agent.analysis[1].match_score

----------------------------------------------------------------------------
\* the worker terminates (C27)

\* C27: the worker never sends more than six requests, and every run
\* reaches the exit of the process, whatever the server does.
C27_WorkerTerminates ==
    /\ [](agent.pc # "off" /\ Len(sent[W]) <= LastStep /\ agent.next_id <= LastStep + 1)
    /\ <>(agent.pc = "exited")

\* C27's case: six requests sent, the server has answered five and the read
\* of the sixth response has timed out; the worker has exited.
C27_Witness ==
    /\ agent.pc = "exited"
    /\ agent.failed = {6}
    /\ agent.err = Some(Msg("mcp read", "timed out"))
    /\ Len(sent[W]) = 6

====
